---- MODULE Spec2Model ----
(***************************************************************************)
(* jsonl-semantic-search: index construction (src/src/indexer.js) and      *)
(* query processing (src/src/searcher.js) as state machines.               *)
(*                                                                         *)
(* Texts are sequences of tokens (a JS string "a b" is <<"a", "b">>, the   *)
(* empty string is <<>>).  A vector is [tag, dim, nz]: dim components, the *)
(* leading ones listed in nz and all the others 0.  JS indices are kept    *)
(* 0-based; a TLA+ sequence position is the JS index plus one.             *)
(***************************************************************************)
EXTENDS Integers, Sequences, FiniteSets, TLC

\* ------------------------------------------------------------------ bounds
MaxTexts == 9      \* longest text list handed to generateEmbeddings on its own
NumRotations == 2  \* how many different text lists of each length are tried
MaxLines == 3      \* longest source file handed to buildIndex
MaxDocs == 2       \* largest index handed to searchIndex
MaxQueryTokens == 3  \* longest raw query handed to expandQuery
MaxCliInput == 1     \* longest source, largest index of a command-line run
MaxAnalyzeLines == 3 \* longest file handed to analyzeDatabase
MaxTextTokens == 3   \* longest text handed to the two copies of preprocessText
MaxIndexedLines == 2 \* longest source of a build that is then searched
MaxOtherBuilds == 1  \* builds another process runs on the same index location

\* ------------------------------------------------------- program constants
subBatchSize == 8
concurrencyLimitUnbounded == subBatchSize
concurrencyLimit == 5
zeroVectorDim == 384

VARIABLES
    \* generateEmbeddings (one call at a time: buildIndex awaits each call)
    gePc,          \* "idle" | "loop" | "await" | "returned" | "threw"
    texts,         \* the argument
    embeddings,    \* new Array(texts.length)
    geI,           \* the loop variable i (0-based offset of the sub-batch)
    promises,      \* the sub-batch's tasks: "queued" | "running" | "fulfilled" | "rejected"
    activeCount,   \* p-limit: tasks running
    queue,         \* p-limit: batchIndex of the tasks waiting, in order
    geResult,      \* the value returned
    requests,      \* provider requests issued so far, in order: [slot, text]
    failedCalls,   \* history: 0-based positions in texts whose request failed
    outOfOrder,    \* history: a request completed while an earlier one was running
    \* buildIndex
    pc,            \* "idle" | "start" | "read" | "batch" | "awaitContent" |
                   \* "awaitTitle" | "writeTfidf" | "done" | "failed"
    lines,         \* the source file, line by line
    options,       \* [model, titleBoost]
    models,        \* the indexer's model cache
    embeddingModel,
    lineNo,        \* lines consumed by the for-await loop
    entryId,
    entries,
    batchI,        \* the batch loop's i
    contentEmbeddings,
    titleEmbeddings,
    fsIndex,       \* <outputDir>/index.json, or Absent
    fsTfidf,       \* <outputDir>/tfidf.json, or Absent
    embedFailures, \* history: ids of the entries one of whose requests failed
    \* searchIndex
    spc,           \* "idle" | "start" | "embedding" | "expand" | "keyword" |
                   \* "score" | "rank" | "returned" | "threw"
    query,         \* the raw query
    sOptions,      \* [limit, threshold, semanticWeight, titleWeight]
    sModels,       \* the searcher's model cache
    index,         \* JSON.parse of index.json
    tfidf,         \* the TfIdf object restored from tfidf.json
    queryEmbedding,
    allQueryTerms,
    tfidfScores,
    scored,        \* the array `results` before filter, sort and slice
    results,       \* the value returned
    sError,        \* the message of the error thrown, "" when none
    sProviderCalls,   \* history: embedding requests issued by the search
    sExpansionCalls,  \* history: calls of expandQuery
    \* expandQuery called on its own
    xPc,           \* "idle" | "start" | "returned" | "threw"
    xQuery,        \* the raw query
    xWordNet,      \* per token, what natural.WordNet.lookupSynonyms does
    xWord2Vec,     \* whether import('word2vec') succeeds
    xResult,       \* the string returned
    \* cli.js: one run of the index or the search command
    cliPc,         \* "idle" | "load" | "action" | "await" | "exited"
    cliCmd,        \* "index" | "search"
    cliArgs,       \* [hfApiKey, model, titleBoost, query, sOptions]; hfApiKey "" when
                   \* the option is not given
    cliFile,       \* the source file: [exists, lines]
    cliIndexDir,   \* whether the index directory exists
    envKey,        \* process.env.HF_API_KEY, "" when unset
    hfKey,         \* the credential the HfInference client was built with
    exitCode,      \* the process's exit code, -1 while it runs
    \* analyzeDatabase
    aPc,           \* "idle" | "read" | "finish" | "returned"
    aLines,        \* the file, line by line
    aOptions,      \* [sampleSize, fields]; sampleSize 0 when not given
    aLineNo,       \* lines consumed by the for-await loop
    processedEntries,
    stats,         \* [totalEntries, fields]
    \* the two copies of preprocessText, each called once on the same argument
    nText,         \* the argument
    nDone,         \* which copies have run: "indexer", "searcher"
    nIndexer,      \* what indexer.js's preprocessText did: [threw, value]
    nSearcher,     \* what searcher.js's preprocessText did: [threw, value]
    \* the index location shared with another process that runs buildIndex
    oPc,           \* the other process's build: "idle" | "running" | "writeTfidf" |
                   \* "done" | "killed"
    oLines,        \* the other process's source file
    oRun,          \* builds the other process has started
    storeWrittenBy,     \* history: the build that last wrote index.json
    keywordsWrittenBy,  \* history: the build that last wrote tfidf.json
    overlapped,    \* history: a build started while another one was running
    interrupted    \* history: a build was killed before it returned

geVars == <<gePc, texts, embeddings, geI, promises, activeCount, queue, geResult,
            requests, failedCalls, outOfOrder>>

buildVars == <<pc, lines, options, models, embeddingModel, lineNo, entryId, entries,
               batchI, contentEmbeddings, titleEmbeddings, fsIndex, fsTfidf,
               embedFailures>>

searchVars == <<spc, query, sOptions, sModels, index, tfidf, queryEmbedding, allQueryTerms,
                tfidfScores, scored, results, sError, sProviderCalls, sExpansionCalls>>

expandVars == <<xPc, xQuery, xWordNet, xWord2Vec, xResult>>

\* The variables of the operations other than generateEmbeddings, buildIndex
\* and searchIndex.
cliVars == <<cliPc, cliCmd, cliArgs, cliFile, cliIndexDir, envKey, hfKey, exitCode>>

analyzeVars == <<aPc, aLines, aOptions, aLineNo, processedEntries, stats>>

normalizeVars == <<nText, nDone, nIndexer, nSearcher>>

locationVars == <<oPc, oLines, oRun, storeWrittenBy, keywordsWrittenBy, overlapped,
                  interrupted>>

restVars == <<expandVars, cliVars, analyzeVars, normalizeVars, locationVars>>

vars == <<geVars, buildVars, searchVars, restVars>>

\* ----------------------------------------------------------------- vectors
Undefined == [tag |-> "undefined", dim |-> 0, nz |-> <<>>]

Vec(d, lead) == [tag |-> "vec", dim |-> d, nz |-> lead]

\* new Array(384).fill(0)
ZeroVector(d) == Vec(d, <<>>)

\* The provider's answer for a text: one fixed 384-dimensional vector per text.
HfFeatureExtraction(text) ==
    CASE text = <<"cat">>        -> Vec(384, <<3, 4>>)
      [] text = <<"dog">>        -> Vec(384, <<4, 3>>)
      [] text = <<"cat", "dog">> -> Vec(384, <<5, 0>>)
      [] text = <<"rocket">>     -> Vec(384, <<0, 5>>)
      [] OTHER                   -> Vec(384, <<0, 0, 5>>)

\* ------------------------------------------------------ generateEmbeddings
Min(a, b) == IF a < b THEN a ELSE b

BatchIndicesToEnd(i, n) == 0 .. (n - i - 1)
\* texts.slice(i, i + batchSize), as the 0-based batchIndex values it holds
BatchIndices(i, n) == 0 .. (Min(i + subBatchSize, n) - i - 1)

SlotIndexNoOffset(i, batchIndex) == batchIndex
\* embeddings[i + batchIndex] = ...
SlotIndex(i, batchIndex) == i + batchIndex

OnEmbedErrorRethrow(d) == [settle |-> "rejected", value |-> Undefined]
\* catch (error) { ...; embeddings[i + batchIndex] = zeroVector; return zeroVector; }
OnEmbedError(d) == [settle |-> "fulfilled", value |-> ZeroVector(d)]

\* p-limit: tasks are started first-in first-out while fewer than
\* concurrencyLimit are running.
RECURSIVE PLimitStart(_, _, _)
PLimitStart(prom, active, q) ==
    IF q # <<>> /\ active < concurrencyLimit
    THEN PLimitStart([prom EXCEPT ![Head(q)] = "running"], active + 1, Tail(q))
    ELSE [promises |-> prom, activeCount |-> active, queue |-> q]

RECURSIVE SeqOfRange(_, _)
SeqOfRange(lo, hi) == IF lo > hi THEN <<>> ELSE <<lo>> \o SeqOfRange(lo + 1, hi)

\* The requests that the tasks going from queued to running issue.
NewRequests(old, new, i) ==
    LET started == SelectSeq(SeqOfRange(0, Cardinality(DOMAIN new) - 1),
                             LAMBDA b : new[b] = "running" /\ old[b] = "queued")
    IN  [k \in 1 .. Len(started) |->
            [slot |-> SlotIndex(i, started[k]), text |-> texts[i + started[k] + 1]]]

\* for (let i = 0; i < texts.length; i += batchSize): batch.map(... limit(...))
GeDispatch ==
    /\ gePc = "loop"
    /\ geI < Len(texts)
    /\ LET idx == BatchIndices(geI, Len(texts))
           all == [b \in idx |-> "queued"]
           st  == PLimitStart(all, activeCount,
                              SeqOfRange(0, Cardinality(idx) - 1))
       IN  /\ promises' = st.promises
           /\ activeCount' = st.activeCount
           /\ queue' = st.queue
           /\ requests' = requests \o NewRequests(all, st.promises, geI)
    /\ gePc' = "await"
    /\ UNCHANGED <<texts, embeddings, geI, geResult, failedCalls, outOfOrder, buildVars, searchVars, restVars>>

\* A running task settles with `outcome`; p-limit then starts the next one.
Settle(b, outcome) ==
    LET slot == SlotIndex(geI, b) + 1
        done == [promises EXCEPT ![b] = outcome.settle]
        st   == PLimitStart(done, activeCount - 1, queue)
    IN  /\ embeddings' = IF outcome.settle = "fulfilled" /\ slot \in DOMAIN embeddings
                         THEN [embeddings EXCEPT ![slot] = outcome.value]
                         ELSE embeddings
        /\ promises' = st.promises
        /\ activeCount' = st.activeCount
        /\ queue' = st.queue
        /\ requests' = requests \o NewRequests(done, st.promises, geI)
        /\ outOfOrder' = (outOfOrder \/ \E a \in DOMAIN promises :
                                            a < b /\ promises[a] = "running")
        /\ UNCHANGED <<gePc, texts, geI, geResult>>

\* hf.featureExtraction resolves: embeddings[i + batchIndex] = result
HfResolve(b) ==
    /\ gePc = "await"
    /\ b \in DOMAIN promises
    /\ promises[b] = "running"
    /\ Settle(b, [settle |-> "fulfilled",
                  value |-> HfFeatureExtraction(texts[geI + b + 1])])
    /\ UNCHANGED <<failedCalls, buildVars, searchVars, restVars>>

\* hf.featureExtraction rejects: the task's catch block runs
HfReject(b) ==
    /\ gePc = "await"
    /\ b \in DOMAIN promises
    /\ promises[b] = "running"
    /\ Settle(b, OnEmbedError(zeroVectorDim))
    /\ failedCalls' = failedCalls \cup {geI + b}
    /\ UNCHANGED <<buildVars, searchVars, restVars>>

\* await Promise.all(promises): continues when all are fulfilled, throws on
\* the first rejection (the outer catch rethrows).
GePromiseAll ==
    /\ gePc = "await"
    /\ \/ \E b \in DOMAIN promises : promises[b] = "rejected"
       \/ \A b \in DOMAIN promises : promises[b] = "fulfilled"
    /\ IF \E b \in DOMAIN promises : promises[b] = "rejected"
       THEN /\ gePc' = "threw"
            /\ UNCHANGED geI
       ELSE /\ gePc' = "loop"
            /\ geI' = geI + subBatchSize
    /\ UNCHANGED <<texts, embeddings, promises, activeCount, queue, geResult, requests,
                   failedCalls, outOfOrder, buildVars, searchVars, restVars>>

\* return embeddings.filter(embedding => embedding !== undefined)
GeReturn ==
    /\ gePc = "loop"
    /\ geI >= Len(texts)
    /\ geResult' = SelectSeq(embeddings, LAMBDA e : e # Undefined)
    /\ gePc' = "returned"
    /\ UNCHANGED <<texts, embeddings, geI, promises, activeCount, queue, requests,
                   failedCalls, outOfOrder, buildVars, searchVars, restVars>>

\* The state generateEmbeddings(model, t) starts in.
GeCall(t) ==
    /\ gePc' = "loop"
    /\ texts' = t
    /\ embeddings' = [k \in 1 .. Len(t) |-> Undefined]
    /\ geI' = 0
    /\ promises' = << >>
    /\ queue' = << >>
    /\ geResult' = << >>
    /\ failedCalls' = {}
    /\ UNCHANGED <<activeCount, requests, outOfOrder>>

GeSteps ==
    \/ GeDispatch
    \/ \E b \in 0 .. (subBatchSize - 1) : HfResolve(b)
    \/ \E b \in 0 .. (subBatchSize - 1) : HfReject(b)
    \/ GePromiseAll
    \/ GeReturn

\* ------------------------------------------------------------ JSON values
\* A field of a decoded record: absent, a string (its tokens) or a number.
AbsentField == [t |-> "absent", s |-> << >>]

Str(s) == [t |-> "string", s |-> s]

NumberField == [t |-> "number", s |-> << >>]

\* JS truthiness of a field value: undefined and "" are falsy; the number
\* modelled is non-zero.
Truthy(v) == (v.t = "string" /\ v.s # << >>) \/ v.t = "number"

\* entry[field] || ''
OrEmptyString(v) == IF Truthy(v) THEN v ELSE Str(<< >>)

\* ---------------------------------------------------------- preprocessText
\* text.toLowerCase(), token by token
ToLowerCase(tok) ==
    CASE tok = "Cats"  -> "cats"
      [] tok = "Dogs"  -> "dogs"
      [] tok = "The"   -> "the"
      [] OTHER         -> tok

\* Tokens made only of characters matched by /[^\w\s]/g: replaced by spaces,
\* which the whitespace collapse and the tokenizer then drop.
NonWordTokens == {"!", "?"}

\* The stopword list of removeStopwords (the part the texts here use).
Stopwords == {"the", "are", "a"}

\* morpha.stem(token), with the catch block's fallback to the token itself
Stem(tok) ==
    CASE tok = "cats"    -> "cat"
      [] tok = "dogs"    -> "dog"
      [] tok = "rockets" -> "rocket"
      [] OTHER           -> tok

\* preprocessText of a string
PreprocessTokens(s) ==
    LET lowered  == [k \in 1 .. Len(s) |-> ToLowerCase(s[k])]
        words    == SelectSeq(lowered, LAMBDA t : t \notin NonWordTokens)
        filtered == SelectSeq(words, LAMBDA t : t \notin Stopwords)
    IN  [k \in 1 .. Len(filtered) |-> Stem(filtered[k])]

\* preprocessText(text): '' for a falsy argument; text.toLowerCase is not a
\* function (TypeError) for a truthy argument that is no string.
preprocessText(v) ==
    IF ~Truthy(v) THEN [threw |-> FALSE, value |-> << >>]
    ELSE IF v.t # "string" THEN [threw |-> TRUE, value |-> << >>]
    ELSE [threw |-> FALSE, value |-> PreprocessTokens(v.s)]

\* --------------------------------------------------------------- loadModel
DefaultModelId == "sentence-transformers/all-MiniLM-L6-v2"

Unresolved == "unresolved"

ResolveModelIdStrict(modelName) ==
    IF modelName = "universal-sentence-encoder" THEN DefaultModelId ELSE Unresolved
\* switch (modelName) { case 'universal-sentence-encoder': ...; default: ... }
ResolveModelId(modelName) ==
    IF modelName = "universal-sentence-encoder"
    THEN "sentence-transformers/all-MiniLM-L6-v2"
    ELSE "sentence-transformers/all-MiniLM-L6-v2"

\* loadModel(modelName) against a cache: the new cache and the model returned.
\* Nothing in its try block throws when the identifier is a string; the catch
\* block's throw is what a missing identifier would reach.
loadModel(cache, modelName) ==
    IF modelName \in DOMAIN cache
    THEN [threw |-> FALSE, cache |-> cache, model |-> cache[modelName]]
    ELSE LET modelId == ResolveModelId(modelName)
         IN  IF modelId = Unresolved
             THEN [threw |-> TRUE, cache |-> cache, model |-> [modelId |-> modelId]]
             ELSE [threw |-> FALSE,
                   cache |-> [n \in DOMAIN cache \cup {modelName} |->
                                 IF n = modelName THEN [modelId |-> modelId]
                                 ELSE cache[n]],
                   model |-> [modelId |-> modelId]]

\* -------------------------------------------------------------- buildIndex
docBatchSize == 32
titleRepeat == 3

\* The builds that write into an index location: none so far, the buildIndex
\* call followed step by step, the n-th build of another process.
NoBuild == [process |-> "none", run |-> 0]

ThisBuild == [process |-> "this", run |-> 1]

OtherBuild(n) == [process |-> "other", run |-> n]

Absent == [present |-> FALSE, metadata |-> << >>, entries |-> << >>, documents |-> << >>]

SkipLineConsumesId(id, es) == [entryId |-> id + 1, entries |-> es]
\* `continue`, and the catch block falling through to the next line: entryId
\* and entries stay as they were.
SkipLine(id, es) == [entryId |-> id, entries |-> es]

\* One pass of the for-await loop body over `line`: the entries and entryId
\* after it.
ProcessLine(line, id, es) ==
    IF line.kind \in {"blank", "space"} THEN SkipLine(id, es)     \* line.trim() === ''
    ELSE IF line.kind = "garbage" THEN SkipLine(id, es)           \* JSON.parse throws
    ELSE LET content == OrEmptyString(line.content)
             title   == OrEmptyString(line.title)
         IN  IF ~Truthy(content) THEN SkipLine(id, es)            \* if (!content) continue
             ELSE LET processedContent == preprocessText(content)
                      processedTitle   == preprocessText(title)
                  IN  IF processedContent.threw \/ processedTitle.threw
                      THEN SkipLine(id, es)                       \* caught, logged
                      ELSE [entryId |-> id + 1,
                            entries |-> Append(es,
                                [id |-> id,
                                 content |-> content,
                                 title |-> title,
                                 processedContent |-> processedContent.value,
                                 processedTitle |-> processedTitle.value,
                                 originalEntry |-> line])]

RECURSIVE ReadAll(_, _, _)
\* The for-await loop over a whole stream.
ReadAll(ls, id, es) ==
    IF ls = << >> THEN es
    ELSE LET r == ProcessLine(Head(ls), id, es)
         IN  ReadAll(Tail(ls), r.entryId, r.entries)

\* const embeddingModel = await loadModel(model)
BLoadModel ==
    /\ pc = "start"
    /\ LET r == loadModel(models, options.model)
       IN  /\ models' = r.cache
           /\ embeddingModel' = r.model
           /\ pc' = IF r.threw THEN "failed" ELSE "read"
    /\ UNCHANGED <<lines, options, lineNo, entryId, entries, batchI, contentEmbeddings,
                   titleEmbeddings, fsIndex, fsTfidf, embedFailures, geVars>>
    /\ UNCHANGED <<searchVars, restVars>>

\* for await (const line of rl) { ... }
BReadLine ==
    /\ pc = "read"
    /\ lineNo < Len(lines)
    /\ LET r == ProcessLine(lines[lineNo + 1], entryId, entries)
       IN  /\ entryId' = r.entryId
           /\ entries' = r.entries
    /\ lineNo' = lineNo + 1
    /\ UNCHANGED <<pc, lines, options, models, embeddingModel, batchI, contentEmbeddings,
                   titleEmbeddings, fsIndex, fsTfidf, embedFailures, geVars>>
    /\ UNCHANGED <<searchVars, restVars>>

BReadEnd ==
    /\ pc = "read"
    /\ lineNo = Len(lines)
    /\ pc' = "batch"
    /\ batchI' = 0
    /\ UNCHANGED <<lines, options, models, embeddingModel, lineNo, entryId, entries,
                   contentEmbeddings, titleEmbeddings, fsIndex, fsTfidf, embedFailures,
                   geVars>>
    /\ UNCHANGED <<searchVars, restVars>>

\* entries.slice(i, i + batchSize)
Batch(i) == SubSeq(entries, i + 1, Min(i + docBatchSize, Len(entries)))

MapField(batch, f) == [k \in 1 .. Len(batch) |-> batch[k][f]]

\* The ids of the batch's entries at the 0-based positions `failed`.
FailedIds(i, failed) == {entries[i + k + 1].id : k \in failed}

\* generateEmbeddings(embeddingModel, contentBatch)
BEmbedContent ==
    /\ pc = "batch"
    /\ batchI < Len(entries)
    /\ GeCall(MapField(Batch(batchI), "processedContent"))
    /\ pc' = "awaitContent"
    /\ UNCHANGED <<lines, options, models, embeddingModel, lineNo, entryId, entries, batchI,
                   contentEmbeddings, titleEmbeddings, fsIndex, fsTfidf, embedFailures>>
    /\ UNCHANGED <<searchVars, restVars>>

\* contentEmbeddings.push(...contentEmbeddingBatch); if (titleBoost) { ... }
BContentDone ==
    /\ pc = "awaitContent"
    /\ gePc \in {"returned", "threw"}
    /\ IF gePc = "threw"
       THEN /\ pc' = "failed"
            /\ UNCHANGED <<contentEmbeddings, batchI, embedFailures, geVars>>
       ELSE /\ contentEmbeddings' = contentEmbeddings \o geResult
            /\ embedFailures' = embedFailures \cup FailedIds(batchI, failedCalls)
            /\ IF options.titleBoost
               THEN /\ GeCall(MapField(Batch(batchI), "processedTitle"))
                    /\ pc' = "awaitTitle"
                    /\ UNCHANGED batchI
               ELSE /\ pc' = "batch"
                    /\ batchI' = batchI + docBatchSize
                    /\ gePc' = "idle"
                    /\ UNCHANGED <<texts, embeddings, geI, promises, activeCount, queue,
                                   geResult, requests, failedCalls, outOfOrder>>
    /\ UNCHANGED <<lines, options, models, embeddingModel, lineNo, entryId, entries,
                   titleEmbeddings, fsIndex, fsTfidf>>
    /\ UNCHANGED <<searchVars, restVars>>

\* titleEmbeddings.push(...titleEmbeddingBatch)
BTitleDone ==
    /\ pc = "awaitTitle"
    /\ gePc \in {"returned", "threw"}
    /\ IF gePc = "threw"
       THEN /\ pc' = "failed"
            /\ UNCHANGED <<titleEmbeddings, batchI, embedFailures, gePc>>
       ELSE /\ titleEmbeddings' = titleEmbeddings \o geResult
            /\ embedFailures' = embedFailures \cup FailedIds(batchI, failedCalls)
            /\ pc' = "batch"
            /\ batchI' = batchI + docBatchSize
            /\ gePc' = "idle"
    /\ UNCHANGED <<lines, options, models, embeddingModel, lineNo, entryId, entries,
                   contentEmbeddings, fsIndex, fsTfidf, texts, embeddings, geI, promises,
                   activeCount, queue, geResult, requests, failedCalls, outOfOrder>>
    /\ UNCHANGED <<searchVars, restVars>>

\* The index structure: metadata and entries.map((entry, i) => ({ ... })).
\* Array.from(undefined) throws when an embedding is missing.
IndexStructure ==
    [present  |-> TRUE,
     metadata |-> [model |-> options.model, titleBoost |-> options.titleBoost,
                   entryCount |-> Len(entries)],
     entries  |-> [k \in 1 .. Len(entries) |->
                     [id |-> entries[k].id,
                      title |-> entries[k].title,
                      content |-> entries[k].content,
                      contentEmbedding |-> contentEmbeddings[k],
                      titleEmbedding |-> IF options.titleBoost THEN titleEmbeddings[k]
                                         ELSE Undefined,
                      originalEntry |-> entries[k].originalEntry]],
     documents |-> << >>]

\* fs.writeFileSync(indexPath, JSON.stringify(index, null, 2))
BWriteIndex ==
    /\ pc = "batch"
    /\ batchI >= Len(entries)
    /\ IF \/ Len(contentEmbeddings) < Len(entries)
          \/ options.titleBoost /\ Len(titleEmbeddings) < Len(entries)
       THEN /\ pc' = "failed"
            /\ UNCHANGED <<fsIndex, storeWrittenBy>>
       ELSE /\ fsIndex' = IndexStructure
            /\ storeWrittenBy' = ThisBuild
            /\ pc' = "writeTfidf"
    /\ UNCHANGED <<lines, options, models, embeddingModel, lineNo, entryId, entries, batchI,
                   contentEmbeddings, titleEmbeddings, fsTfidf, embedFailures, geVars>>
    /\ UNCHANGED <<searchVars, expandVars, cliVars, analyzeVars, normalizeVars>>
    /\ UNCHANGED <<oPc, oLines, oRun, keywordsWrittenBy, overlapped, interrupted>>

RECURSIVE Repeat(_, _)
Repeat(s, n) == IF n = 0 THEN << >> ELSE s \o Repeat(s, n - 1)

KeywordDocumentTitleOnce(entry) == entry.processedContent \o entry.processedTitle
\* let document = entry.processedContent; if (entry.processedTitle) { 3 times:
\* document += ' ' + entry.processedTitle }
KeywordDocument(entry) ==
    IF entry.processedTitle # << >>
    THEN entry.processedContent \o Repeat(entry.processedTitle, titleRepeat)
    ELSE entry.processedContent

\* tfidf.addDocument(document): the document's term -> count mapping
TermCounts(document) ==
    [t \in {document[k] : k \in 1 .. Len(document)} |->
        Cardinality({k \in 1 .. Len(document) : document[k] = t})]

KeywordDocumentsReversed(es) ==
    [k \in 1 .. Len(es) |-> TermCounts(KeywordDocument(es[Len(es) + 1 - k]))]
\* entries.forEach((entry, i) => { ...; tfidf.addDocument(document) }): one
\* keyword document per entry, in the order of the entries
KeywordDocuments(es) == [k \in 1 .. Len(es) |-> TermCounts(KeywordDocument(es[k]))]

BWriteTfidfSkipped ==
    /\ pc = "writeTfidf"
    /\ pc' = "done"
    /\ UNCHANGED <<lines, options, models, embeddingModel, lineNo, entryId, entries, batchI,
                   contentEmbeddings, titleEmbeddings, fsIndex, fsTfidf, embedFailures,
                   geVars>>
    /\ UNCHANGED <<searchVars, restVars>>
\* fs.writeFileSync(tfidfPath, JSON.stringify(tfidf, null, 2))
BWriteTfidf ==
    /\ pc = "writeTfidf"
    /\ fsTfidf' = [present |-> TRUE, metadata |-> << >>, entries |-> << >>,
                   documents |-> KeywordDocuments(entries)]
    /\ keywordsWrittenBy' = ThisBuild
    /\ pc' = "done"
    /\ UNCHANGED <<lines, options, models, embeddingModel, lineNo, entryId, entries, batchI,
                   contentEmbeddings, titleEmbeddings, fsIndex, embedFailures, geVars>>
    /\ UNCHANGED <<searchVars, expandVars, cliVars, analyzeVars, normalizeVars>>
    /\ UNCHANGED <<oPc, oLines, oRun, storeWrittenBy, overlapped, interrupted>>

BuildSteps ==
    \/ BLoadModel
    \/ BReadLine
    \/ BReadEnd
    \/ BEmbedContent
    \/ BContentDone
    \/ BTitleDone
    \/ BWriteIndex
    \/ BWriteTfidf

\* ----------------------------------------------------------------- numbers
\* A JS number is a fraction [n, d] in lowest terms with d > 0; d = 0 stands
\* for a value that is not finite: NaN (n = 0) or Infinity (n # 0).
\* Arithmetic on a value that is not finite gives NaN, and every comparison
\* with one is false.
Abs(x) == IF x < 0 THEN -x ELSE x

RECURSIVE GCD(_, _)
GCD(a, b) == IF b = 0 THEN a ELSE GCD(b, a % b)

NaN == [n |-> 0, d |-> 0]

Frac(n, d) ==
    IF d = 0 THEN [n |-> IF n = 0 THEN 0 ELSE 1, d |-> 0]
    ELSE LET g  == GCD(Abs(n), Abs(d))
             sg == IF d < 0 THEN -1 ELSE 1
         IN  [n |-> sg * (n \div g), d |-> sg * (d \div g)]

Num(k) == [n |-> k, d |-> 1]

Finite(a) == a.d # 0

Plus(a, b) == IF Finite(a) /\ Finite(b) THEN Frac(a.n * b.d + b.n * a.d, a.d * b.d) ELSE NaN

Minus(a, b) == IF Finite(a) /\ Finite(b) THEN Frac(a.n * b.d - b.n * a.d, a.d * b.d) ELSE NaN

Times(a, b) == IF Finite(a) /\ Finite(b) THEN Frac(a.n * b.n, a.d * b.d) ELSE NaN

Divide(a, b) == IF Finite(a) /\ Finite(b) THEN Frac(a.n * b.d, a.d * b.n) ELSE NaN

\* a >= b
Geq(a, b) == Finite(a) /\ Finite(b) /\ a.n * b.d >= b.n * a.d

\* a > b
Gt(a, b) == Finite(a) /\ Finite(b) /\ a.n * b.d > b.n * a.d

\* x || y on numbers: 0 and NaN are falsy
OrElse(x, y) == IF x = NaN \/ x = Num(0) THEN y ELSE x

\* Math.max(...xs); -Infinity for no argument, NaN when an argument is NaN
RECURSIVE MathMax(_)
MathMax(xs) ==
    IF xs = << >> THEN [n |-> 1, d |-> 0]
    ELSE IF Len(xs) = 1 THEN Head(xs)
    ELSE LET m == MathMax(Tail(xs))
         IN  IF ~Finite(Head(xs)) \/ ~Finite(m) THEN NaN
             ELSE IF Geq(Head(xs), m) THEN Head(xs) ELSE m

\* Math.sqrt, exact on the perfect squares the vectors used here give
Sqrt(x) == CHOOSE r \in 0 .. x : r * r = x

RECURSIVE Sum(_)
Sum(xs) == IF xs = << >> THEN Num(0) ELSE Plus(Head(xs), Sum(Tail(xs)))

\* ------------------------------------------------- searcher.js: helpers
searcherPreprocessTextKeepStopwords(v) ==
    IF ~Truthy(v) THEN [threw |-> FALSE, value |-> << >>]
    ELSE IF v.t # "string" THEN [threw |-> TRUE, value |-> << >>]
    ELSE LET lowered == [k \in 1 .. Len(v.s) |-> ToLowerCase(v.s[k])]
             words   == SelectSeq(lowered, LAMBDA t : t \notin NonWordTokens)
         IN  [threw |-> FALSE, value |-> [k \in 1 .. Len(words) |-> Stem(words[k])]]
\* The searcher's own copy of preprocessText.
searcherPreprocessText(v) ==
    IF ~Truthy(v) THEN [threw |-> FALSE, value |-> << >>]
    ELSE IF v.t # "string" THEN [threw |-> TRUE, value |-> << >>]
    ELSE LET lowered  == [k \in 1 .. Len(v.s) |-> ToLowerCase(v.s[k])]
             words    == SelectSeq(lowered, LAMBDA t : t \notin NonWordTokens)
             filtered == SelectSeq(words, LAMBDA t : t \notin Stopwords)
         IN  [threw |-> FALSE, value |-> [k \in 1 .. Len(filtered) |-> Stem(filtered[k])]]

\* processed.split(' '): the empty string splits into one empty term
SplitTerms(text) == IF text = << >> THEN <<"">> ELSE text

\* The searcher's own copy of the model-name switch.
searcherResolveModelId(modelName) ==
    IF modelName = "universal-sentence-encoder"
    THEN "sentence-transformers/all-MiniLM-L6-v2"
    ELSE "sentence-transformers/all-MiniLM-L6-v2"

\* The searcher's own copy of loadModel.
searcherLoadModel(cache, modelName) ==
    IF modelName \in DOMAIN cache
    THEN [threw |-> FALSE, cache |-> cache, model |-> cache[modelName]]
    ELSE LET modelId == searcherResolveModelId(modelName)
         IN  IF modelId = Unresolved
             THEN [threw |-> TRUE, cache |-> cache, model |-> [modelId |-> modelId]]
             ELSE [threw |-> FALSE,
                   cache |-> [n \in DOMAIN cache \cup {modelName} |->
                                 IF n = modelName THEN [modelId |-> modelId]
                                 ELSE cache[n]],
                   model |-> [modelId |-> modelId]]

\* The leading component k of a vector (0 past the listed ones).
Component(v, k) == IF k <= Len(v.nz) THEN v.nz[k] ELSE 0

RECURSIVE SumTo(_, _)
SumTo(f, n) == IF n = 0 THEN 0 ELSE f[n] + SumTo(f, n - 1)

\* calculateCosineSimilarity(a, b)
calculateCosineSimilarity(a, b) ==
    LET length == Min(a.dim, b.dim)
        lead   == Min(length, IF Len(a.nz) > Len(b.nz) THEN Len(a.nz) ELSE Len(b.nz))
        dotProduct == SumTo([k \in 1 .. lead |-> Component(a, k) * Component(b, k)], lead)
        normA == Sqrt(SumTo([k \in 1 .. lead |-> Component(a, k) * Component(a, k)], lead))
        normB == Sqrt(SumTo([k \in 1 .. lead |-> Component(b, k) * Component(b, k)], lead))
    IN  IF normA = 0 \/ normB = 0 THEN Num(0)
        ELSE Frac(dotProduct, normA * normB)

\* similarity(a, b) of the `similarity` package on lower-cased strings:
\* (longest - levenshtein) / longest, 0 when either is empty.
Similarity(a, b) ==
    IF a = << >> \/ b = << >> THEN Num(0)
    ELSE IF a = b THEN Num(1)
    ELSE CASE a = <<"the", "dogs">> /\ b = <<"cats">> -> Frac(1, 8)
           [] a = <<"the", "dogs">> /\ b = <<"dogs">> -> Frac(4, 8)
           [] a = <<"cats">> /\ b = <<"dogs">>        -> Frac(1, 4)
           [] a = <<"dogs">> /\ b = <<"cats">>        -> Frac(1, 4)
           [] OTHER                                   -> Num(0)

\* s.toLowerCase() of a raw string
LowerCaseText(s) == [k \in 1 .. Len(s) |-> ToLowerCase(s[k])]

\* [...new Set(xs)]: first occurrences, in order
RECURSIVE Dedup(_)
Dedup(xs) ==
    IF xs = << >> THEN << >>
    ELSE LET front == Dedup(SubSeq(xs, 1, Len(xs) - 1))
             last  == xs[Len(xs)]
         IN  IF \E k \in 1 .. Len(front) : front[k] = last THEN front
             ELSE Append(front, last)

\* natural's TfIdf.idf(term) = 1 + ln(N / (1 + df)), in tenths
IdfTenths(N, df) ==
    CASE N = 1 -> <<10, 3>>[df + 1]
      [] N = 2 -> <<17, 10, 6>>[df + 1]
      [] N = 3 -> <<21, 14, 10, 7>>[df + 1]
      [] N = 4 -> <<24, 17, 13, 10, 8>>[df + 1]
      [] N = 5 -> <<26, 19, 15, 12, 10, 8>>[df + 1]

\* tfidf.tfidf(term, i): the term's count in document i times its idf; the
\* empty term tokenizes to nothing and scores 0
TfIdfOf(tf, term, i) ==
    IF term = "" THEN Num(0)
    ELSE LET docs  == tf.documents
             count == IF term \in DOMAIN docs[i + 1] THEN docs[i + 1][term] ELSE 0
             df    == Cardinality({k \in 1 .. Len(docs) : term \in DOMAIN docs[k]})
         IN  Frac(count * IdfTenths(Len(docs), df), 10)

\* What natural.WordNet.lookupSynonyms does for a token: it returns synsets,
\* returns nothing, or throws.
WordNetOutcomes == {"synsets", "none", "throws"}

\* The synsets returned for a token: one synset holding the token and one
\* other word.
WordNetSynsets(token) ==
    << [synonyms |-> IF token = "cats" THEN <<"cats", "dogs">> ELSE <<token, "cats">>] >>

WordNetLookup(token, outcome) ==
    [threw   |-> outcome = "throws",
     synsets |-> IF outcome = "synsets" THEN WordNetSynsets(token) ELSE << >>]

WordNetCatchAbsent == FALSE
\* try { ... lookupSynonyms ... } catch (error) { /* continue */ }
WordNetCatch == TRUE

\* getWord2VecModel: the in-memory model, or null when the import fails
getWord2VecModel(importSucceeds) == IF importSucceeds THEN "model" ELSE "null"

\* getSimilarWords: the in-memory model's getNearestWords returns []
getSimilarWords(model, word) == << >>

RECURSIVE Flatten(_)
Flatten(ss) == IF ss = << >> THEN << >> ELSE Head(ss) \o Flatten(Tail(ss))

\* Tokens of fewer than 3 characters
ShortTokens == {"an"}

\* The loop of expandQuery over the tokens, with the lookups' outcomes token
\* by token; `synonyms` is the Set built so far, in insertion order.
RECURSIVE ExpandTokens(_, _, _, _)
ExpandTokens(tokens, wordNet, word2Vec, synonyms) ==
    IF tokens = << >> THEN [threw |-> FALSE, synonyms |-> synonyms]
    ELSE LET token == Head(tokens)
             lookup == WordNetLookup(token, Head(wordNet))
             wordSynonyms ==
                 IF lookup.threw THEN << >>
                 ELSE SelectSeq(Flatten(MapField(SubSeq(lookup.synsets, 1,
                                                        Min(3, Len(lookup.synsets))),
                                                 "synonyms")),
                                LAMBDA syn : syn # token)
             word2vecModel == getWord2VecModel(word2Vec)
             similarWords == IF word2vecModel # "null"
                             THEN getSimilarWords(word2vecModel, token)
                             ELSE << >>
         IN  IF token \in ShortTokens
             THEN ExpandTokens(Tail(tokens), Tail(wordNet), word2Vec, synonyms)
             ELSE IF lookup.threw /\ ~WordNetCatch
             THEN [threw |-> TRUE, synonyms |-> synonyms]
             ELSE ExpandTokens(Tail(tokens), Tail(wordNet), word2Vec,
                               Dedup(synonyms \o wordSynonyms \o similarWords))

\* tokenizer.tokenize(query.toLowerCase())
ExpandableTokens(q) == SelectSeq(LowerCaseText(q), LAMBDA t : t \notin NonWordTokens)

\* The lookups' outcomes for the tokens of a query
WordNetAnswers(q) == [1 .. Len(ExpandableTokens(q)) -> WordNetOutcomes]

\* `${query} ${Array.from(synonyms).join(' ')}`
expandQuery(q, wordNet, word2Vec) ==
    LET r == ExpandTokens(ExpandableTokens(q), wordNet, word2Vec, << >>)
    IN  [threw |-> r.threw, value |-> q \o r.synonyms]

\* ------------------------------------------------------------- searchIndex
IndexExistsStoreOnly(store, keyword) == store.present
\* fs.existsSync(indexPath) && fs.existsSync(tfidfPath)
IndexExists(store, keyword) == store.present /\ keyword.present

NoIndexMessage == "Index not found"

\* Lines 52-72: the existence check, the two reads, the query normalisation,
\* loadModel and the start of the embedding request.
SOpenIndex ==
    /\ spc = "start"
    /\ IF ~IndexExists(fsIndex, fsTfidf)
       THEN /\ spc' = "threw"
            /\ sError' = NoIndexMessage
            /\ UNCHANGED <<index, tfidf, sModels, sProviderCalls>>
       ELSE IF ~fsIndex.present \/ ~fsTfidf.present
       THEN /\ spc' = "threw"                      \* readFileSync: ENOENT
            /\ sError' = "ENOENT"
            /\ UNCHANGED <<index, tfidf, sModels, sProviderCalls>>
       ELSE LET r == searcherLoadModel(sModels, fsIndex.metadata.model)
            IN  /\ index' = fsIndex
                /\ tfidf' = fsTfidf
                /\ sModels' = r.cache
                /\ IF r.threw
                   THEN /\ spc' = "threw"
                        /\ sError' = "Failed to initialize embedding model"
                        /\ UNCHANGED sProviderCalls
                   ELSE /\ spc' = "embedding"
                        /\ sProviderCalls' = sProviderCalls + 1
                        /\ UNCHANGED sError
    /\ UNCHANGED <<query, sOptions, queryEmbedding, allQueryTerms, tfidfScores, scored,
                   results, sExpansionCalls, geVars, buildVars, restVars>>

GenerateEmbeddingOnErrorThrow(d) == [settle |-> "rejected", value |-> Undefined]
\* generateEmbedding's catch: return new Array(384).fill(0)
GenerateEmbeddingOnError(d) == [settle |-> "fulfilled", value |-> ZeroVector(d)]

\* generateEmbedding: the provider answers
SEmbedResolve ==
    /\ spc = "embedding"
    /\ queryEmbedding' = HfFeatureExtraction(searcherPreprocessText(Str(query)).value)
    /\ spc' = "expand"
    /\ UNCHANGED <<query, sOptions, sModels, index, tfidf, allQueryTerms, tfidfScores,
                   scored, results, sError, sProviderCalls, sExpansionCalls, geVars, buildVars, restVars>>

\* generateEmbedding: the provider fails
SEmbedReject ==
    /\ spc = "embedding"
    /\ LET r == GenerateEmbeddingOnError(zeroVectorDim)
       IN  IF r.settle = "fulfilled"
           THEN /\ queryEmbedding' = r.value
                /\ spc' = "expand"
                /\ UNCHANGED sError
           ELSE /\ spc' = "threw"
                /\ sError' = "featureExtraction failed"
                /\ UNCHANGED queryEmbedding
    /\ UNCHANGED <<query, sOptions, sModels, index, tfidf, allQueryTerms, tfidfScores,
                   scored, results, sProviderCalls, sExpansionCalls, geVars, buildVars, restVars>>

\* Lines 75-79: expandQuery and the union of the two term lists
SExpandQuery(wordNet, word2Vec) ==
    /\ spc = "expand"
    /\ sExpansionCalls' = sExpansionCalls + 1
    /\ LET queryTerms == SplitTerms(searcherPreprocessText(Str(query)).value)
           expandedQuery == expandQuery(query, wordNet, word2Vec)
           expandedQueryTerms ==
               SplitTerms(searcherPreprocessText(Str(expandedQuery.value)).value)
       IN  IF expandedQuery.threw
           THEN /\ spc' = "threw"
                /\ sError' = "expandQuery failed"
                /\ UNCHANGED allQueryTerms
           ELSE /\ allQueryTerms' = Dedup(queryTerms \o expandedQueryTerms)
                /\ spc' = "keyword"
                /\ UNCHANGED sError
    /\ UNCHANGED <<query, sOptions, sModels, index, tfidf, queryEmbedding, tfidfScores,
                   scored, results, sProviderCalls, geVars, buildVars, restVars>>

\* Lines 81-91: one accumulated tf-idf score per entry
SKeywordScores ==
    /\ spc = "keyword"
    /\ tfidfScores' = [i \in 1 .. Len(index.entries) |->
                          Sum([t \in 1 .. Len(allQueryTerms) |->
                                  TfIdfOf(tfidf, allQueryTerms[t], i - 1)])]
    /\ spc' = "score"
    /\ UNCHANGED <<query, sOptions, sModels, index, tfidf, queryEmbedding, allQueryTerms,
                   scored, results, sError, sProviderCalls, sExpansionCalls, geVars, buildVars, restVars>>

KeywordDivisorNoGuard(scores) == MathMax(scores)
\* Math.max(...tfidfScores) || 1
KeywordDivisor(scores) == OrElse(MathMax(scores), Num(1))

TitleScoreNoHalf(titleSimilarity, titleMatchScore, titleWeight) ==
    Times(Plus(titleSimilarity, titleMatchScore), titleWeight)
\* (titleSimilarity + titleMatchScore) / 2 * titleWeight
TitleScore(titleSimilarity, titleMatchScore, titleWeight) ==
    Times(Divide(Plus(titleSimilarity, titleMatchScore), Num(2)), titleWeight)

\* The body of index.entries.map(async (entry, i) => { ... })
ScoreEntry(entry, i) ==
    LET contentSimilarity == calculateCosineSimilarity(queryEmbedding, entry.contentEmbedding)
        titleSimilarity ==
            IF entry.titleEmbedding # Undefined /\ index.metadata.titleBoost
            THEN calculateCosineSimilarity(queryEmbedding, entry.titleEmbedding)
            ELSE Num(0)
        titleMatchScore ==
            IF Truthy(entry.title)
            THEN Similarity(LowerCaseText(query), LowerCaseText(entry.title.s))
            ELSE Num(0)
        tfidfScore == OrElse(tfidfScores[i + 1], Num(0))
        normalizedTfIdf == Divide(tfidfScore, KeywordDivisor(tfidfScores))
        semanticScore == Times(contentSimilarity, sOptions.semanticWeight)
        keywordScore == Times(normalizedTfIdf, Minus(Num(1), sOptions.semanticWeight))
        titleScore == TitleScore(titleSimilarity, titleMatchScore, sOptions.titleWeight)
        totalScore == Plus(Plus(semanticScore, keywordScore), titleScore)
    IN  [id |-> entry.id,
         title |-> entry.title,
         content |-> entry.content,
         score |-> totalScore,
         relevance |-> totalScore,
         semanticSimilarity |-> contentSimilarity,
         keywordRelevance |-> normalizedTfIdf,
         titleRelevance |-> titleSimilarity,
         originalEntry |-> entry.originalEntry]

\* Lines 98-142
SScoreEntries ==
    /\ spc = "score"
    /\ scored' = [k \in 1 .. Len(index.entries) |-> ScoreEntry(index.entries[k], k - 1)]
    /\ spc' = "rank"
    /\ UNCHANGED <<query, sOptions, sModels, index, tfidf, queryEmbedding, allQueryTerms,
                   tfidfScores, results, sError, sProviderCalls, sExpansionCalls, geVars, buildVars, restVars>>

PassesThresholdAlways(result, threshold) == TRUE
\* result => result.relevance >= threshold
PassesThreshold(result, threshold) == Geq(result.relevance, threshold)

ComparatorAscending(a, b) == Minus(a.score, b.score)
\* (a, b) => b.score - a.score
Comparator(a, b) == Minus(b.score, a.score)

\* x placed into a list already sorted, behind every element it does not
\* have to precede: Array.prototype.sort is stable.
RECURSIVE InsertSorted(_, _)
InsertSorted(sorted, x) ==
    IF sorted = << >> THEN <<x>>
    ELSE LET last == sorted[Len(sorted)]
         IN  IF Gt(Comparator(last, x), Num(0))
             THEN Append(InsertSorted(SubSeq(sorted, 1, Len(sorted) - 1), x), last)
             ELSE Append(sorted, x)

RECURSIVE Sort(_)
Sort(xs) ==
    IF xs = << >> THEN << >>
    ELSE InsertSorted(Sort(SubSeq(xs, 1, Len(xs) - 1)), xs[Len(xs)])

SliceAll(xs, n) == xs
\* xs.slice(0, n)
Slice(xs, n) == SubSeq(xs, 1, Min(n, Len(xs)))

\* Lines 145-148: filter, sort, slice
SReturn ==
    /\ spc = "rank"
    /\ results' = Slice(Sort(SelectSeq(scored,
                                       LAMBDA r : PassesThreshold(r, sOptions.threshold))),
                        sOptions.limit)
    /\ spc' = "returned"
    /\ UNCHANGED <<query, sOptions, sModels, index, tfidf, queryEmbedding, allQueryTerms,
                   tfidfScores, scored, sError, sProviderCalls, sExpansionCalls, geVars, buildVars, restVars>>

SearchSteps ==
    \/ SOpenIndex
    \/ SEmbedResolve
    \/ SEmbedReject
    \/ \E wordNet \in WordNetAnswers(query) : \E word2Vec \in BOOLEAN :
          SExpandQuery(wordNet, word2Vec)
    \/ SKeywordScores
    \/ SScoreEntries
    \/ SReturn

\* ------------------------------------------------------------ build inputs
BlankLine == [kind |-> "blank", content |-> AbsentField, title |-> AbsentField]

SpaceLine == [kind |-> "space", content |-> AbsentField, title |-> AbsentField]

GarbageLine == [kind |-> "garbage", content |-> AbsentField, title |-> AbsentField]

Record(c, t) == [kind |-> "object", content |-> c, title |-> t]

LineKinds ==
    { BlankLine, SpaceLine, GarbageLine,
      Record(AbsentField, Str(<<"Cats">>)),          \* {"title": "Cats"}
      Record(Str(<< >>), AbsentField),               \* {"content": ""}
      Record(Str(<<"Cats", "!">>), Str(<<"Cats">>)), \* {"content": "Cats!", "title": "Cats"}
      Record(Str(<<"the", "dogs">>), AbsentField),   \* {"content": "the dogs"}
      Record(Str(<<"rockets">>), NumberField) }      \* {"content": "rockets", "title": 7}

RECURSIVE SeqsUpTo(_, _)
SeqsUpTo(S, n) ==
    IF n = 0 THEN {<< >>}
    ELSE LET shorter == SeqsUpTo(S, n - 1)
         IN  shorter \cup {Append(s, x) : s \in shorter, x \in S}

ModelNames == {"universal-sentence-encoder", "bert-large"}

EmptyCache == [n \in {} |-> [modelId |-> ""]]

GeIdle ==
    /\ gePc = "idle"
    /\ texts = << >>
    /\ embeddings = << >>
    /\ geI = 0
    /\ promises = << >>
    /\ activeCount = 0
    /\ queue = << >>
    /\ geResult = << >>
    /\ requests = << >>
    /\ failedCalls = {}
    /\ outOfOrder = FALSE

BuildIdle ==
    /\ pc = "idle"
    /\ lines = << >>
    /\ options = [model |-> "universal-sentence-encoder", titleBoost |-> TRUE]
    /\ models = EmptyCache
    /\ embeddingModel = [modelId |-> ""]
    /\ lineNo = 0
    /\ entryId = 0
    /\ entries = << >>
    /\ batchI = 0
    /\ contentEmbeddings = << >>
    /\ titleEmbeddings = << >>
    /\ fsIndex = Absent
    /\ fsTfidf = Absent
    /\ embedFailures = {}

\* ----------------------------------------------------------- search inputs
\* The records the indexed sources are made of.
DocRecords ==
    { Record(Str(<<"Cats", "!">>), Str(<<"Cats">>)),           \* "Cats!" / "Cats"
      Record(Str(<<"the", "dogs">>), AbsentField),             \* "the dogs", no title
      Record(Str(<<"Cats", "the", "dogs">>), Str(<<"Dogs">>)) }  \* "Cats the dogs" / "Dogs"

\* What a completed buildIndex leaves in the index location for the source
\* `ls`, when the requests for the entries whose ids are in `failed` failed.
BuiltStore(ls, opts, failed) ==
    LET es == ReadAll(ls, 0, << >>)
        embed(text, id) == IF id \in failed THEN OnEmbedError(zeroVectorDim).value
                           ELSE HfFeatureExtraction(text)
    IN  [present  |-> TRUE,
         metadata |-> [model |-> opts.model, titleBoost |-> opts.titleBoost,
                       entryCount |-> Len(es)],
         entries  |-> [k \in 1 .. Len(es) |->
                         [id |-> es[k].id,
                          title |-> es[k].title,
                          content |-> es[k].content,
                          contentEmbedding |-> embed(es[k].processedContent, es[k].id),
                          titleEmbedding |-> IF opts.titleBoost
                                             THEN embed(es[k].processedTitle, es[k].id)
                                             ELSE Undefined,
                          originalEntry |-> es[k].originalEntry]],
         documents |-> << >>]

BuiltKeywords(ls) ==
    LET es == ReadAll(ls, 0, << >>)
    IN  [present |-> TRUE, metadata |-> << >>, entries |-> << >>,
         documents |-> KeywordDocuments(es)]

\* Which entries' requests failed during the build: none, the first, all.
FailureSets(n) == {{}, {0} \cap (0 .. (n - 1)), 0 .. (n - 1)}

Queries == { <<"Cats">>, <<"the", "dogs">>, << >> }

Limits == {0, 1, 10}

Thresholds == {Num(0), Frac(1, 2)}

SemanticWeights == {Frac(7, 10), Num(0)}

TitleWeights == {Frac(3, 10), Num(1)}

DefaultSearchOptions ==
    [limit |-> 10, threshold |-> Frac(1, 2), semanticWeight |-> Frac(7, 10),
     titleWeight |-> Frac(3, 10)]

ExpandIdle ==
    /\ xPc = "idle"
    /\ xQuery = << >>
    /\ xWordNet = << >>
    /\ xWord2Vec = FALSE
    /\ xResult = << >>

CliIdle ==
    /\ cliPc = "idle"
    /\ cliCmd = "index"
    /\ cliArgs = [hfApiKey |-> "", model |-> "universal-sentence-encoder",
                  titleBoost |-> TRUE, query |-> << >>, sOptions |-> DefaultSearchOptions]
    /\ cliFile = [exists |-> FALSE, lines |-> << >>]
    /\ cliIndexDir = FALSE
    /\ envKey = ""
    /\ hfKey = ""
    /\ exitCode = -1

\* options.fields not given: targetFields is null
AllFields == [given |-> FALSE, names |-> {}]

\* stats.fields with no field
NoFields == [f \in {} |-> [type |-> "", count |-> 0, coverage |-> 0]]

AnalyzeIdle ==
    /\ aPc = "idle"
    /\ aLines = << >>
    /\ aOptions = [sampleSize |-> 0, fields |-> AllFields]
    /\ aLineNo = 0
    /\ processedEntries = 0
    /\ stats = [totalEntries |-> 0, fields |-> NoFields]

NormalizeIdle ==
    /\ nText = AbsentField
    /\ nDone = {}
    /\ nIndexer = [threw |-> FALSE, value |-> << >>]
    /\ nSearcher = [threw |-> FALSE, value |-> << >>]

LocationIdle ==
    /\ oPc = "idle"
    /\ oLines = << >>
    /\ oRun = 0
    /\ storeWrittenBy = NoBuild
    /\ keywordsWrittenBy = NoBuild
    /\ overlapped = FALSE
    /\ interrupted = FALSE

RestIdle == ExpandIdle /\ CliIdle /\ AnalyzeIdle /\ NormalizeIdle /\ LocationIdle

SearchIdle ==
    /\ spc = "idle"
    /\ query = << >>
    /\ sOptions = [limit |-> 10, threshold |-> Frac(1, 2),
                   semanticWeight |-> Frac(7, 10), titleWeight |-> Frac(3, 10)]
    /\ sModels = EmptyCache
    /\ index = Absent
    /\ tfidf = Absent
    /\ queryEmbedding = Undefined
    /\ allQueryTerms = << >>
    /\ tfidfScores = << >>
    /\ scored = << >>
    /\ results = << >>
    /\ sError = ""
    /\ sProviderCalls = 0
    /\ sExpansionCalls = 0

InitSearch ==
    /\ spc = "start"
    /\ query \in Queries
    /\ sOptions \in [limit : Limits, threshold : Thresholds,
                     semanticWeight : SemanticWeights, titleWeight : TitleWeights]
    /\ sModels = EmptyCache
    /\ index = Absent
    /\ tfidf = Absent
    /\ queryEmbedding = Undefined
    /\ allQueryTerms = << >>
    /\ tfidfScores = << >>
    /\ scored = << >>
    /\ results = << >>
    /\ sError = ""
    /\ sProviderCalls = 0
    /\ sExpansionCalls = 0
    /\ \E ls \in SeqsUpTo(DocRecords, MaxDocs) :
       \E opts \in [model : ModelNames, titleBoost : BOOLEAN] :
       \E failed \in FailureSets(Len(ls)) :
       \E storePresent \in BOOLEAN : \E keywordsPresent \in BOOLEAN :
          /\ fsIndex = IF storePresent THEN BuiltStore(ls, opts, failed) ELSE Absent
          /\ fsTfidf = IF keywordsPresent THEN BuiltKeywords(ls) ELSE Absent
    /\ pc = "idle"
    /\ lines = << >>
    /\ options = [model |-> "universal-sentence-encoder", titleBoost |-> TRUE]
    /\ models = EmptyCache
    /\ embeddingModel = [modelId |-> ""]
    /\ lineNo = 0
    /\ entryId = 0
    /\ entries = << >>
    /\ batchI = 0
    /\ contentEmbeddings = << >>
    /\ titleEmbeddings = << >>
    /\ embedFailures = {}
    /\ GeIdle
    /\ RestIdle

NextSearch == SearchSteps

SpecSearch == InitSearch /\ [][NextSearch]_vars

\* ------------------------------------------------------ buildIndex on its own
InitBuild ==
    /\ pc = "start"
    /\ lines \in SeqsUpTo(LineKinds, MaxLines)
    /\ options \in [model : ModelNames, titleBoost : BOOLEAN]
    /\ models = EmptyCache
    /\ embeddingModel = [modelId |-> ""]
    /\ lineNo = 0
    /\ entryId = 0
    /\ entries = << >>
    /\ batchI = 0
    /\ contentEmbeddings = << >>
    /\ titleEmbeddings = << >>
    /\ fsIndex = Absent
    /\ fsTfidf = Absent
    /\ embedFailures = {}
    /\ GeIdle
    /\ SearchIdle
    /\ RestIdle

NextBuild == BuildSteps \/ GeSteps

SpecBuild == InitBuild /\ [][NextBuild]_vars

\* ---------------------------------------------- generateEmbeddings on its own
TextPool == << <<"cat">>, <<"dog">>, << >>, <<"cat", "dog">>, <<"rocket">> >>

\* A list of n texts in which neighbours differ.
TextList(n, s) == [k \in 1 .. n |-> TextPool[((k + s) % Len(TextPool)) + 1]]

InitEmbed ==
    /\ gePc = "loop"
    /\ \E n \in 0 .. MaxTexts : \E s \in 1 .. NumRotations : texts = TextList(n, s)
    /\ embeddings = [k \in 1 .. Len(texts) |-> Undefined]
    /\ geI = 0
    /\ promises = << >>
    /\ activeCount = 0
    /\ queue = << >>
    /\ geResult = << >>
    /\ requests = << >>
    /\ failedCalls = {}
    /\ outOfOrder = FALSE
    /\ BuildIdle
    /\ SearchIdle
    /\ RestIdle

NextEmbed == GeSteps

SpecEmbed == InitEmbed /\ [][NextEmbed]_vars

\* ------------------------------------------------- expandQuery on its own
\* The tokens the raw queries are made of.
QueryTokens == {"Cats", "the", "dogs", "an", "!"}

ExpandQueryCall ==
    /\ xPc = "start"
    /\ LET r == expandQuery(xQuery, xWordNet, xWord2Vec)
       IN  IF r.threw
           THEN /\ xPc' = "threw"
                /\ UNCHANGED xResult
           ELSE /\ xPc' = "returned"
                /\ xResult' = r.value
    /\ UNCHANGED <<xQuery, xWordNet, xWord2Vec, geVars, buildVars, searchVars, cliVars,
                   analyzeVars, normalizeVars, locationVars>>

InitExpand ==
    /\ xPc = "start"
    /\ xQuery \in SeqsUpTo(QueryTokens, MaxQueryTokens)
    /\ xWordNet \in WordNetAnswers(xQuery)
    /\ xWord2Vec \in BOOLEAN
    /\ xResult = << >>
    /\ GeIdle
    /\ BuildIdle
    /\ SearchIdle
    /\ CliIdle
    /\ AnalyzeIdle
    /\ NormalizeIdle
    /\ LocationIdle

NextExpand == ExpandQueryCall

SpecExpand == InitExpand /\ [][NextExpand]_vars

\* ------------------------------------------- model loading, build or search
\* Either a build of a source of at most one line, or a search with the
\* default options: the runs that differ in the model name.
InitModel ==
    \/ InitBuild /\ Len(lines) <= 1
    \/ InitSearch /\ query = <<"Cats">> /\ sOptions = DefaultSearchOptions

NextModel == BuildSteps \/ GeSteps \/ SearchSteps

SpecModel == InitModel /\ [][NextModel]_vars

\* ------------------------------------------------------------------ cli.js
\* Module evaluation: the imports run first, and indexer.js and searcher.js
\* each build their client with `new HfInference(process.env.HF_API_KEY || '')`;
\* then cli.js line 14 runs and the command's action is dispatched.
CliLoadModules ==
    /\ cliPc = "load"
    /\ hfKey' = envKey
    /\ cliPc' = "action"
    /\ UNCHANGED <<cliCmd, cliArgs, cliFile, cliIndexDir, envKey, exitCode>>
    /\ UNCHANGED <<geVars, buildVars, searchVars, expandVars, analyzeVars, normalizeVars, locationVars>>

\* if (options.hfApiKey) { process.env.HF_API_KEY = options.hfApiKey; }
SetApiKey(env, option) == IF option # "" THEN option ELSE env

ExitCodeOnErrorZero(threw) == IF threw THEN 0 ELSE 0
\* catch (error) { ...; process.exit(1); }, else the process ends normally
ExitCodeOnError(threw) == IF threw THEN 1 ELSE 0

\* The index command's action up to the call of buildIndex
CliIndexAction ==
    /\ cliPc = "action"
    /\ cliCmd = "index"
    /\ envKey' = SetApiKey(envKey, cliArgs.hfApiKey)
    /\ IF ~cliFile.exists
       THEN /\ exitCode' = 1
            /\ cliPc' = "exited"
            /\ UNCHANGED <<pc, lines, options, cliIndexDir>>
       ELSE /\ cliIndexDir' = TRUE
            /\ pc' = "start"
            /\ lines' = cliFile.lines
            /\ options' = [model |-> cliArgs.model, titleBoost |-> cliArgs.titleBoost]
            /\ cliPc' = "await"
            /\ UNCHANGED exitCode
    /\ UNCHANGED <<cliCmd, cliArgs, cliFile, hfKey>>
    /\ UNCHANGED <<models, embeddingModel, lineNo, entryId, entries, batchI,
                   contentEmbeddings, titleEmbeddings, fsIndex, fsTfidf, embedFailures>>
    /\ UNCHANGED <<geVars, searchVars, expandVars, analyzeVars, normalizeVars, locationVars>>

\* buildIndex has settled: spinner.succeed, or the catch block
CliIndexSettled ==
    /\ cliPc = "await"
    /\ cliCmd = "index"
    /\ pc \in {"done", "failed"}
    /\ exitCode' = ExitCodeOnError(pc = "failed")
    /\ cliPc' = "exited"
    /\ UNCHANGED <<cliCmd, cliArgs, cliFile, cliIndexDir, envKey, hfKey>>
    /\ UNCHANGED <<geVars, buildVars, searchVars, expandVars, analyzeVars, normalizeVars, locationVars>>

\* The search command's action up to the call of searchIndex
CliSearchAction ==
    /\ cliPc = "action"
    /\ cliCmd = "search"
    /\ envKey' = SetApiKey(envKey, cliArgs.hfApiKey)
    /\ IF ~cliIndexDir
       THEN /\ exitCode' = 1
            /\ cliPc' = "exited"
            /\ UNCHANGED <<spc, query, sOptions>>
       ELSE /\ spc' = "start"
            /\ query' = cliArgs.query
            /\ sOptions' = cliArgs.sOptions
            /\ cliPc' = "await"
            /\ UNCHANGED exitCode
    /\ UNCHANGED <<cliCmd, cliArgs, cliFile, cliIndexDir, hfKey>>
    /\ UNCHANGED <<sModels, index, tfidf, queryEmbedding, allQueryTerms, tfidfScores,
                   scored, results, sError, sProviderCalls, sExpansionCalls>>
    /\ UNCHANGED <<geVars, buildVars, expandVars, analyzeVars, normalizeVars, locationVars>>

\* searchIndex has settled: the results are printed, or the catch block
CliSearchSettled ==
    /\ cliPc = "await"
    /\ cliCmd = "search"
    /\ spc \in {"returned", "threw"}
    /\ exitCode' = ExitCodeOnError(spc = "threw")
    /\ cliPc' = "exited"
    /\ UNCHANGED <<cliCmd, cliArgs, cliFile, cliIndexDir, envKey, hfKey>>
    /\ UNCHANGED <<geVars, buildVars, searchVars, expandVars, analyzeVars, normalizeVars, locationVars>>

CliSteps ==
    \/ CliLoadModules
    \/ CliIndexAction
    \/ CliIndexSettled
    \/ CliSearchAction
    \/ CliSearchSettled

ApiKeys == {"", "env-key"}

ApiKeyOptions == {"", "cli-key"}

\* A run of the index command over a source of at most MaxCliInput lines, or
\* of the search command over an index of at most MaxCliInput documents.
InitCli ==
    /\ cliPc = "load"
    /\ envKey \in ApiKeys
    /\ hfKey = ""
    /\ exitCode = -1
    /\ cliArgs \in [hfApiKey : ApiKeyOptions, model : ModelNames, titleBoost : BOOLEAN,
                    query : Queries,
                    sOptions : [limit : {10}, threshold : Thresholds,
                                semanticWeight : {Frac(7, 10)}, titleWeight : {Frac(3, 10)}]]
    /\ \/ /\ cliCmd = "index"
          /\ cliArgs.query = << >>
          /\ cliArgs.sOptions = DefaultSearchOptions
          /\ \E ls \in SeqsUpTo(LineKinds, MaxCliInput) :
                cliFile \in {[exists |-> TRUE, lines |-> ls], [exists |-> FALSE, lines |-> << >>]}
          /\ cliIndexDir \in BOOLEAN
          /\ fsIndex = Absent
          /\ fsTfidf = Absent
       \/ /\ cliCmd = "search"
          /\ cliArgs.model = "universal-sentence-encoder"
          /\ cliArgs.titleBoost
          /\ cliFile = [exists |-> FALSE, lines |-> << >>]
          /\ \E ls \in SeqsUpTo(DocRecords, MaxCliInput) :
             \E opts \in [model : ModelNames, titleBoost : BOOLEAN] :
             \E storePresent \in BOOLEAN : \E keywordsPresent \in BOOLEAN :
                /\ cliIndexDir \in BOOLEAN
                /\ ~cliIndexDir => ~storePresent /\ ~keywordsPresent
                /\ fsIndex = IF storePresent THEN BuiltStore(ls, opts, {}) ELSE Absent
                /\ fsTfidf = IF keywordsPresent THEN BuiltKeywords(ls) ELSE Absent
    /\ pc = "idle"
    /\ lines = << >>
    /\ options = [model |-> "universal-sentence-encoder", titleBoost |-> TRUE]
    /\ models = EmptyCache
    /\ embeddingModel = [modelId |-> ""]
    /\ lineNo = 0
    /\ entryId = 0
    /\ entries = << >>
    /\ batchI = 0
    /\ contentEmbeddings = << >>
    /\ titleEmbeddings = << >>
    /\ embedFailures = {}
    /\ GeIdle
    /\ SearchIdle
    /\ ExpandIdle
    /\ AnalyzeIdle
    /\ NormalizeIdle
    /\ LocationIdle

NextCli == CliSteps \/ BuildSteps \/ GeSteps \/ SearchSteps

SpecCli == InitCli /\ [][NextCli]_vars

\* --------------------------------------------------------- analyzeDatabase
\* JSON.parse gives null for the line `null`.
NullLine == [kind |-> "null", content |-> AbsentField, title |-> AbsentField]

\* Object.entries(entry): the fields of a record, in order
FieldsOf(line) ==
    (IF line.content.t # "absent" THEN <<"content">> ELSE << >>)
        \o (IF line.title.t # "absent" THEN <<"title">> ELSE << >>)

\* getValueType(value) for the values used here
getValueType(value) == value.t

\* options.sampleSize || Infinity, in `processedEntries >= sampleSize`
ReachedSampleSize(processed, sampleSize) == sampleSize # 0 /\ processed >= sampleSize

\* The loop over Object.entries(entry): one field's statistics created or
\* updated (the lengths and the unique values are left out).
RECURSIVE AnalyzeFields(_, _, _, _)
AnalyzeFields(names, entry, targetFields, fields) ==
    IF names = << >> THEN fields
    ELSE LET field == Head(names)
             value == entry[field]
             next  ==
                 IF targetFields.given /\ field \notin targetFields.names THEN fields
                 ELSE IF field \notin DOMAIN fields
                 THEN [f \in DOMAIN fields \cup {field} |->
                          IF f = field
                          THEN [type |-> getValueType(value), count |-> 1, coverage |-> 0]
                          ELSE fields[f]]
                 ELSE [fields EXCEPT
                          ![field].count = @ + 1,
                          ![field].type = IF @ # getValueType(value) THEN "mixed" ELSE @]
         IN  AnalyzeFields(Tail(names), entry, targetFields, next)

\* One round of `for await (const line of rl)`
AReadLine ==
    /\ aPc = "read"
    /\ aLineNo < Len(aLines)
    /\ aLineNo' = aLineNo + 1
    /\ LET line == aLines[aLineNo + 1]
       IN  IF line.kind \in {"blank", "space"}            \* line.trim() === ''
           THEN UNCHANGED <<aPc, processedEntries, stats>>
           ELSE IF line.kind = "garbage"                  \* JSON.parse throws
           THEN UNCHANGED <<aPc, processedEntries, stats>>
           ELSE IF line.kind = "null"                     \* Object.entries(null) throws
           THEN /\ processedEntries' = processedEntries + 1
                /\ stats' = [stats EXCEPT !.totalEntries = @ + 1]
                /\ UNCHANGED aPc
           ELSE /\ processedEntries' = processedEntries + 1
                /\ stats' = [totalEntries |-> stats.totalEntries + 1,
                             fields |-> AnalyzeFields(FieldsOf(line), line, aOptions.fields,
                                                      stats.fields)]
                /\ aPc' = IF ReachedSampleSize(processedEntries + 1, aOptions.sampleSize)
                          THEN "finish" ELSE "read"
    /\ UNCHANGED <<aLines, aOptions>>
    /\ UNCHANGED <<geVars, buildVars, searchVars, expandVars, cliVars, normalizeVars, locationVars>>

\* The stream has ended
AReadEnd ==
    /\ aPc = "read"
    /\ aLineNo = Len(aLines)
    /\ aPc' = "finish"
    /\ UNCHANGED <<aLines, aOptions, aLineNo, processedEntries, stats>>
    /\ UNCHANGED <<geVars, buildVars, searchVars, expandVars, cliVars, normalizeVars, locationVars>>

\* Math.round((count / totalEntries) * 100)
Coverage(count, totalEntries) == (200 * count + totalEntries) \div (2 * totalEntries)

\* Lines 385-401: coverage per field, the counters deleted, the result returned
AFinish ==
    /\ aPc = "finish"
    /\ stats' = [stats EXCEPT
                    !.fields = [f \in DOMAIN stats.fields |->
                                   [type |-> stats.fields[f].type,
                                    count |-> 0,
                                    coverage |-> Coverage(stats.fields[f].count,
                                                          stats.totalEntries)]]]
    /\ aPc' = "returned"
    /\ UNCHANGED <<aLines, aOptions, aLineNo, processedEntries>>
    /\ UNCHANGED <<geVars, buildVars, searchVars, expandVars, cliVars, normalizeVars, locationVars>>

AnalyzeSteps == AReadLine \/ AReadEnd \/ AFinish

AnalyzeLineKinds ==
    { BlankLine, GarbageLine, NullLine,
      Record(Str(<<"Cats", "!">>), Str(<<"Cats">>)),
      Record(Str(<<"the", "dogs">>), NumberField),
      Record(AbsentField, Str(<<"Cats">>)) }

SampleSizes == {0, 1, 2}

TargetFields ==
    {AllFields, [given |-> TRUE, names |-> {"title"}],
     [given |-> TRUE, names |-> {"content", "title"}]}

InitAnalyze ==
    /\ aPc = "read"
    /\ aLines \in SeqsUpTo(AnalyzeLineKinds, MaxAnalyzeLines)
    /\ aOptions \in [sampleSize : SampleSizes, fields : TargetFields]
    /\ aLineNo = 0
    /\ processedEntries = 0
    /\ stats = [totalEntries |-> 0, fields |-> NoFields]
    /\ GeIdle
    /\ BuildIdle
    /\ SearchIdle
    /\ ExpandIdle
    /\ CliIdle
    /\ NormalizeIdle
    /\ LocationIdle

NextAnalyze == AnalyzeSteps

SpecAnalyze == InitAnalyze /\ [][NextAnalyze]_vars

\* --------------------------------------- the two copies of preprocessText
\* The tokens the texts handed to preprocessText are made of.
TextTokens == {"Cats", "The", "dogs", "are", "rockets", "!"}

\* A record's field as buildIndex reads it, or a query.
NormalizeArguments ==
    {AbsentField, NumberField} \cup {Str(t) : t \in SeqsUpTo(TextTokens, MaxTextTokens)}

\* indexer.js: preprocessText(text)
NormalizeInIndexer ==
    /\ "indexer" \notin nDone
    /\ nIndexer' = preprocessText(nText)
    /\ nDone' = nDone \cup {"indexer"}
    /\ UNCHANGED <<nText, nSearcher, geVars, buildVars, searchVars, expandVars, cliVars,
                   analyzeVars, locationVars>>

\* searcher.js: preprocessText(text)
NormalizeInSearcher ==
    /\ "searcher" \notin nDone
    /\ nSearcher' = searcherPreprocessText(nText)
    /\ nDone' = nDone \cup {"searcher"}
    /\ UNCHANGED <<nText, nIndexer, geVars, buildVars, searchVars, expandVars, cliVars,
                   analyzeVars, locationVars>>

InitNormalize ==
    /\ nText \in NormalizeArguments
    /\ nDone = {}
    /\ nIndexer = [threw |-> FALSE, value |-> << >>]
    /\ nSearcher = [threw |-> FALSE, value |-> << >>]
    /\ GeIdle
    /\ BuildIdle
    /\ SearchIdle
    /\ ExpandIdle
    /\ CliIdle
    /\ AnalyzeIdle
    /\ LocationIdle

NextNormalize == NormalizeInIndexer \/ NormalizeInSearcher

SpecNormalize == InitNormalize /\ [][NextNormalize]_vars

\* ---------------------------------------- buildIndex, then any searchIndex
\* searchIndex(q, { indexDir }) with the other options left to their defaults
SearchCall(q) ==
    /\ spc = "idle"
    /\ spc' = "start"
    /\ query' = q
    /\ sOptions' = DefaultSearchOptions
    /\ UNCHANGED <<sModels, index, tfidf, queryEmbedding, allQueryTerms, tfidfScores,
                   scored, results, sError, sProviderCalls, sExpansionCalls>>
    /\ UNCHANGED <<geVars, buildVars, restVars>>

\* The lines of the sources built here: one that is skipped, a record whose
\* content normalizes to nothing, and two records with keywords.
IndexedLineKinds ==
    { GarbageLine,
      Record(Str(<<"the">>), AbsentField),             \* {"content": "the"}
      Record(Str(<<"Cats", "!">>), Str(<<"Cats">>)),   \* {"content": "Cats!", "title": "Cats"}
      Record(Str(<<"the", "dogs">>), AbsentField) }    \* {"content": "the dogs"}

IndexedQueries == { <<"Cats">>, <<"the", "dogs">> }

\* A search of the location a build has completed on.
SearchAfterBuild ==
    /\ pc = "done"
    /\ \E q \in IndexedQueries : SearchCall(q)

InitIndexThenSearch ==
    /\ InitBuild
    /\ lines \in SeqsUpTo(IndexedLineKinds, MaxIndexedLines)

NextIndexThenSearch == BuildSteps \/ GeSteps \/ SearchAfterBuild \/ SearchSteps

SpecIndexThenSearch == InitIndexThenSearch /\ [][NextIndexThenSearch]_vars

\* ------------------------------- one index location, two building processes
\* The index location is written by the buildIndex call followed step by
\* step and by the builds of another process, of which only the two writes
\* are followed; both sources hold one record, and searchIndex may be called
\* at any moment.
LocationSources ==
    { << Record(Str(<<"Cats", "!">>), Str(<<"Cats">>)) >>,
      << Record(Str(<<"the", "dogs">>), AbsentField) >> }

\* Whether a build is between its call and its return.
ThisBuildRunning == pc \notin {"idle", "done", "failed"}

OtherBuildRunning == oPc \in {"running", "writeTfidf"}

\* buildIndex(filePath, options) is called
BuildCall ==
    /\ pc = "idle"
    /\ pc' = "start"
    /\ overlapped' = (overlapped \/ OtherBuildRunning)
    /\ UNCHANGED <<lines, options, models, embeddingModel, lineNo, entryId, entries, batchI,
                   contentEmbeddings, titleEmbeddings, fsIndex, fsTfidf, embedFailures,
                   geVars>>
    /\ UNCHANGED <<searchVars, expandVars, cliVars, analyzeVars, normalizeVars>>
    /\ UNCHANGED <<oPc, oLines, oRun, storeWrittenBy, keywordsWrittenBy, interrupted>>

\* The other process calls buildIndex on the same outputDir, with the
\* default options.
OtherBuildCall ==
    /\ oPc \in {"idle", "done"}
    /\ oRun < MaxOtherBuilds
    /\ oPc' = "running"
    /\ oRun' = oRun + 1
    /\ overlapped' = (overlapped \/ ThisBuildRunning)
    /\ UNCHANGED <<oLines, storeWrittenBy, keywordsWrittenBy, interrupted>>
    /\ UNCHANGED <<geVars, buildVars, searchVars, expandVars, cliVars, analyzeVars,
                   normalizeVars>>

\* The other process: fs.writeFileSync(indexPath, ...) once its embeddings
\* are generated
OtherWriteIndex ==
    /\ oPc = "running"
    /\ \E failed \in FailureSets(Len(oLines)) :
          fsIndex' = BuiltStore(oLines,
                                [model |-> "universal-sentence-encoder", titleBoost |-> TRUE],
                                failed)
    /\ storeWrittenBy' = OtherBuild(oRun)
    /\ oPc' = "writeTfidf"
    /\ UNCHANGED <<pc, lines, options, models, embeddingModel, lineNo, entryId, entries,
                   batchI, contentEmbeddings, titleEmbeddings, fsTfidf, embedFailures,
                   geVars>>
    /\ UNCHANGED <<searchVars, expandVars, cliVars, analyzeVars, normalizeVars>>
    /\ UNCHANGED <<oLines, oRun, keywordsWrittenBy, overlapped, interrupted>>

\* The other process: fs.writeFileSync(tfidfPath, ...)
OtherWriteTfidf ==
    /\ oPc = "writeTfidf"
    /\ fsTfidf' = BuiltKeywords(oLines)
    /\ keywordsWrittenBy' = OtherBuild(oRun)
    /\ oPc' = "done"
    /\ UNCHANGED <<pc, lines, options, models, embeddingModel, lineNo, entryId, entries,
                   batchI, contentEmbeddings, titleEmbeddings, fsIndex, embedFailures,
                   geVars>>
    /\ UNCHANGED <<searchVars, expandVars, cliVars, analyzeVars, normalizeVars>>
    /\ UNCHANGED <<oLines, oRun, storeWrittenBy, overlapped, interrupted>>

\* The other process is killed during its build.
OtherKilled ==
    /\ OtherBuildRunning
    /\ oPc' = "killed"
    /\ interrupted' = TRUE
    /\ UNCHANGED <<oLines, oRun, storeWrittenBy, keywordsWrittenBy, overlapped>>
    /\ UNCHANGED <<geVars, buildVars, searchVars, expandVars, cliVars, analyzeVars,
                   normalizeVars>>

OtherSteps ==
    \/ OtherBuildCall
    \/ OtherWriteIndex
    \/ OtherWriteTfidf
    \/ OtherKilled

\* searchIndex is called on the location, whatever the builds are doing.
SearchAnyTime == SearchCall(<<"Cats">>)

InitLocation ==
    /\ pc = "idle"
    /\ lines \in LocationSources
    /\ options \in [model : {"universal-sentence-encoder"}, titleBoost : BOOLEAN]
    /\ models = EmptyCache
    /\ embeddingModel = [modelId |-> ""]
    /\ lineNo = 0
    /\ entryId = 0
    /\ entries = << >>
    /\ batchI = 0
    /\ contentEmbeddings = << >>
    /\ titleEmbeddings = << >>
    /\ fsIndex = Absent
    /\ fsTfidf = Absent
    /\ embedFailures = {}
    /\ GeIdle
    /\ SearchIdle
    /\ ExpandIdle
    /\ CliIdle
    /\ AnalyzeIdle
    /\ NormalizeIdle
    /\ oPc = "idle"
    /\ oLines \in LocationSources
    /\ oRun = 0
    /\ storeWrittenBy = NoBuild
    /\ keywordsWrittenBy = NoBuild
    /\ overlapped = FALSE
    /\ interrupted = FALSE

NextLocation ==
    \/ BuildCall
    \/ BuildSteps
    \/ GeSteps
    \/ OtherSteps
    \/ SearchAnyTime
    \/ SearchSteps

SpecLocation == InitLocation /\ [][NextLocation]_vars

\* ================================================================== claims

\* The provider requests started and not yet completed or failed.
InFlight == {b \in DOMAIN promises : promises[b] = "running"}

IsZeroVector(v) == v.tag = "vec" /\ v.nz = << >>

\* C1: whatever the completion order and whichever calls fail,
\* generateEmbeddings returns as many vectors as it was given texts, and
\* position k holds the provider's vector for text k, or a zero vector when
\* the call for text k failed.
C1_InputOrder ==
    gePc = "returned" =>
        /\ Len(geResult) = Len(texts)
        /\ \A k \in 1 .. Len(texts) :
              IF (k - 1) \in failedCalls
              THEN IsZeroVector(geResult[k])
              ELSE geResult[k] = HfFeatureExtraction(texts[k])

\* Two sub-batches, completions out of input order, some calls failed and
\* some not.
C1_Witness ==
    /\ gePc = "returned"
    /\ Len(texts) > subBatchSize
    /\ outOfOrder
    /\ failedCalls # {}
    /\ Cardinality(failedCalls) < Len(texts)

\* C2: at every moment at most 5 provider requests are started and not yet
\* completed or failed.
C2_AtMostFiveInFlight ==
    /\ Cardinality(InFlight) <= 5
    /\ activeCount = Cardinality(InFlight)

\* The pool is full while tasks of the sub-batch wait.
C2_Witness ==
    /\ Cardinality(InFlight) = 5
    /\ queue # << >>

\* C3: a failing call leaves a zero vector of dimension 384 at its position,
\* the other calls of the batch complete with their own results, and neither
\* generateEmbeddings nor buildIndex fails.
C3_FailureIsolated ==
    /\ gePc # "threw"
    /\ pc # "failed"
    /\ gePc \in {"await", "loop", "returned"} =>
          \A k \in failedCalls : embeddings[k + 1] = Vec(384, << >>)
    /\ gePc = "returned" =>
          /\ Len(geResult) = Len(texts)
          /\ \A k \in 1 .. Len(texts) :
                (k - 1) \notin failedCalls => geResult[k] = HfFeatureExtraction(texts[k])
    /\ pc = "done" =>
          \A k \in 1 .. Len(entries) :
              entries[k].id \notin embedFailures =>
                  fsIndex.entries[k].contentEmbedding
                      = HfFeatureExtraction(entries[k].processedContent)

\* A build that completed although a call failed, with a sibling that kept
\* its result.
C3_Witness ==
    /\ pc = "done"
    /\ embedFailures # {}
    /\ \E k \in 1 .. Len(entries) :
          /\ entries[k].id \notin embedFailures
          /\ fsIndex.entries[k].contentEmbedding # Vec(384, << >>)
    /\ \E k \in 1 .. Len(entries) :
          /\ entries[k].id \in embedFailures
          /\ fsIndex.entries[k].contentEmbedding = Vec(384, << >>)

\* A line that decodes to a record with a non-empty content string.
HasContent(line) ==
    line.kind = "object" /\ line.content.t = "string" /\ line.content.s # << >>

\* C4: the persisted documents carry ids 0, 1, ..., n-1 in input order, and
\* they are exactly the records that decode and have non-empty content.
C4_IdsForEveryContentRecord ==
    pc = "done" =>
        /\ \A k \in 1 .. Len(fsIndex.entries) : fsIndex.entries[k].id = k - 1
        /\ MapField(fsIndex.entries, "originalEntry") = SelectSeq(lines, HasContent)

\* The lines C5 is about: empty, whitespace-only, undecodable.
Skippable(line) == line.kind \in {"blank", "space", "garbage"}

\* What C5 compares: document count, ids and per-id content.
Documents(es) == [k \in 1 .. Len(es) |-> [id |-> es[k].id, content |-> es[k].content]]

\* C5: empty, whitespace-only and undecodable lines never abort the build,
\* and the index built equals the one built from the stream without them.
C5_SkippedLinesLeaveNoTrace ==
    /\ pc # "failed"
    /\ pc = "done" =>
          Documents(fsIndex.entries)
              = Documents(ReadAll(SelectSeq(lines, LAMBDA l : ~Skippable(l)), 0, << >>))

\* A completed build whose stream has a skippable line ahead of an indexed
\* record.
C5_Witness ==
    /\ pc = "done"
    /\ Len(fsIndex.entries) >= 1
    /\ \E i \in 1 .. Len(lines) : \E j \in 1 .. Len(lines) :
          i < j /\ Skippable(lines[i]) /\ HasContent(lines[j])
          /\ fsIndex.entries[1].originalEntry = lines[j]

\* C6: with either artifact missing, searchIndex throws "Index not found"
\* at its start: no result, no embedding request, no expansion call.
C6_IndexNotFoundAtStart ==
    (~fsIndex.present \/ ~fsTfidf.present) /\ spc # "start" =>
        /\ spc = "threw"
        /\ sError = "Index not found"
        /\ results = << >>
        /\ sProviderCalls = 0
        /\ sExpansionCalls = 0

\* The search has thrown with the record store there and the keyword
\* statistics missing.
C6_Witness ==
    /\ spc = "threw"
    /\ fsIndex.present
    /\ Len(fsIndex.entries) >= 1
    /\ ~fsTfidf.present

\* The model names the switch in loadModel has a case for.
KnownModelNames == {"universal-sentence-encoder"}

C8_NoneBelowThreshold ==
    spc = "returned" =>
        \A k \in 1 .. Len(results) : ~Gt(sOptions.threshold, results[k].relevance)

\* A search that returned a document and dropped another one for its
\* relevance.
C8_Witness ==
    /\ spc = "returned"
    /\ sOptions.limit = 10
    /\ Len(results) >= 1
    /\ \E k \in 1 .. Len(scored) : Gt(sOptions.threshold, scored[k].relevance)

\* C9: the returned list is in non-increasing order of score, and results of
\* equal score are in ascending order of document id.
C9_SortedStable ==
    spc = "returned" =>
        \A i \in 1 .. Len(results) : \A j \in 1 .. Len(results) :
            i < j =>
                /\ Geq(results[i].score, results[j].score)
                /\ results[i].score = results[j].score => results[i].id < results[j].id

\* Two results of equal score were returned.
C9_Witness ==
    /\ spc = "returned"
    /\ Len(results) >= 2
    /\ results[1].score = results[2].score
    /\ Gt(results[1].score, Num(0))

\* C10: over a non-empty index every normalizedKeyword is a number, none
\* exceeds 1, and all of them are 0 exactly when all raw keyword scores are 0.
C10_NormalizedKeyword ==
    spc \in {"rank", "returned"} /\ Len(scored) > 0 =>
        /\ \A k \in 1 .. Len(scored) :
              /\ Finite(scored[k].keywordRelevance)
              /\ Geq(Num(1), scored[k].keywordRelevance)
        /\ (\A k \in 1 .. Len(scored) : scored[k].keywordRelevance = Num(0))
               <=> (\A k \in 1 .. Len(tfidfScores) : tfidfScores[k] = Num(0))

\* Two documents scored, none of which holds a query term: the divisor is
\* the fallback 1.
C10_Witness ==
    /\ spc = "rank"
    /\ Len(scored) >= 2
    /\ query # << >>
    /\ \A k \in 1 .. Len(tfidfScores) : tfidfScores[k] = Num(0)
    /\ \A k \in 1 .. Len(scored) : scored[k].keywordRelevance = Num(0)

\* A document reached the top normalizedKeyword 1 while another stayed
\* strictly between 0 and 1.
C10_MixedScores ==
    /\ spc = "rank"
    /\ \E k \in 1 .. Len(scored) : scored[k].keywordRelevance = Num(1)
    /\ \E k \in 1 .. Len(scored) :
          /\ Gt(scored[k].keywordRelevance, Num(0))
          /\ Gt(Num(1), scored[k].keywordRelevance)

C12_ProviderFailureDegrades ==
    /\ spc = "threw" => sError = "Index not found" /\ sProviderCalls = 0
    /\ spc \in {"rank", "returned"} /\ queryEmbedding = ZeroVector(384) =>
          \A k \in 1 .. Len(scored) :
              LET r == scored[k]
                  titleStringSim ==
                      IF r.title = Str(<< >>) THEN Num(0)
                      ELSE Similarity(LowerCaseText(query), LowerCaseText(r.title.s))
              IN  /\ r.semanticSimilarity = Num(0)
                  /\ r.titleRelevance = Num(0)
                  /\ r.score = Plus(Times(r.keywordRelevance,
                                          Minus(Num(1), sOptions.semanticWeight)),
                                    Times(Times(titleStringSim, [n |-> 1, d |-> 2]),
                                          sOptions.titleWeight))

\* The embedding request failed, the index holds embeddings that are not
\* zero, and the search returned two documents ranked by what is left.
C12_Witness ==
    /\ spc = "returned"
    /\ sProviderCalls = 1
    /\ queryEmbedding = ZeroVector(384)
    /\ index.metadata.titleBoost
    /\ Len(results) = 2
    /\ \A k \in 1 .. 2 : /\ ~IsZeroVector(index.entries[k].contentEmbedding)
                         /\ ~IsZeroVector(index.entries[k].titleEmbedding)
    /\ Gt(results[1].score, results[2].score)

\* The synonyms expandQuery is to find: token by token, those of the
\* synsets the lookup returned, nothing for a token of fewer than 3
\* characters or one whose lookup threw or returned nothing.
ExpectedSynonyms(q, wordNet) ==
    LET tokens == SelectSeq([k \in 1 .. Len(q) |-> ToLowerCase(q[k])],
                            LAMBDA t : t \notin {"!", "?"})
        found(k) == IF wordNet[k] = "synsets" /\ tokens[k] # "an"
                    THEN SelectSeq(WordNetSynsets(tokens[k])[1].synonyms,
                                   LAMBDA syn : syn # tokens[k])
                    ELSE << >>
    IN  Dedup(Flatten([k \in 1 .. Len(tokens) |-> found(k)]))

\* C13: whichever lookups throw or return nothing, expandQuery does not
\* raise and returns the raw query followed by the deduplicated terms the
\* other lookups found, in the order found.
C13_ExpandQueryBestEffort ==
    /\ xPc # "threw"
    /\ xPc = "returned" => xResult = xQuery \o ExpectedSynonyms(xQuery, xWordNet)

\* The lookup threw for the first token and found a term for a later one,
\* with the word-vector import failing.
C13_Witness ==
    /\ xPc = "returned"
    /\ Len(xWordNet) >= 2
    /\ xWordNet[1] = "throws"
    /\ \E k \in 2 .. Len(xWordNet) : xWordNet[k] = "synsets"
    /\ ~xWord2Vec
    /\ Len(xResult) > Len(xQuery)

\* C14: a persisted entry has a title embedding only if the index was built
\* with title-boost and the entry's normalized title is not empty, and no
\* title embedding is requested from the provider for an empty normalized
\* title.
C14_TitleEmbeddingOnlyForTitles ==
    /\ pc = "done" =>
          \A k \in 1 .. Len(fsIndex.entries) :
              fsIndex.entries[k].titleEmbedding # Undefined =>
                  options.titleBoost /\ entries[k].processedTitle # << >>
    /\ pc = "awaitTitle" =>
          \A k \in 1 .. Len(requests) : requests[k].text # << >>

\* The fatal conditions of a command-line run: the source file is missing or
\* the build failed; the index directory or one of the two artifacts is
\* missing, or the search threw.
CliFatal ==
    \/ cliCmd = "index" /\ (~cliFile.exists \/ pc = "failed")
    \/ cliCmd = "search" /\ (~cliIndexDir \/ ~fsIndex.present \/ ~fsTfidf.present
                               \/ spc = "threw")

\* C15: the index and the search command exit with 1 on a fatal condition
\* and with 0 otherwise, when the build has written the index or the search
\* has returned, be it with no result.
C15_ExitCodes ==
    cliPc = "exited" =>
        /\ exitCode = IF CliFatal THEN 1 ELSE 0
        /\ exitCode = 0 /\ cliCmd = "index" => pc = "done" /\ fsIndex.present /\ fsTfidf.present
        /\ exitCode = 0 /\ cliCmd = "search" => spc = "returned"
        /\ exitCode = 1 /\ cliCmd = "search" => results = << >>

\* A search over an index that holds a document ended with exit code 0
\* and no result.
C15_Witness ==
    /\ cliPc = "exited"
    /\ cliCmd = "search"
    /\ exitCode = 0
    /\ Len(index.entries) = 1
    /\ results = << >>

\* A search ended with exit code 1 for a missing keyword artifact.
C15_FatalSearch ==
    /\ cliPc = "exited"
    /\ cliCmd = "search"
    /\ exitCode = 1
    /\ cliIndexDir
    /\ fsIndex.present

\* C16: when the command is run with the credential option, the embedding
\* requests it issues are made by a client built with that credential.
C16_CommandLineCredentialUsed ==
    cliArgs.hfApiKey # "" /\ (Len(requests) > 0 \/ sProviderCalls > 0) =>
        hfKey = cliArgs.hfApiKey

\* ---------------------------------------------- buildIndex, then searchIndex
\* A build over a source of one record with content, followed by a search
\* of the index it wrote, the query being the record's content and the
\* options the defaults.
SearchForContent ==
    /\ pc = "done"
    /\ spc = "idle"
    /\ spc' = "start"
    /\ query' = lines[1].content.s
    /\ sOptions' = DefaultSearchOptions
    /\ UNCHANGED <<sModels, index, tfidf, queryEmbedding, allQueryTerms, tfidfScores,
                   scored, results, sError, sProviderCalls, sExpansionCalls>>
    /\ UNCHANGED <<geVars, buildVars, restVars>>

InitRoundTrip ==
    /\ InitBuild
    /\ Len(lines) = 1
    /\ HasContent(lines[1])

NextRoundTrip == BuildSteps \/ GeSteps \/ SearchForContent \/ SearchSteps

SpecRoundTrip == InitRoundTrip /\ [][NextRoundTrip]_vars

\* C17: the search for the content of the one document of an index returns
\* that document as its first result.
C17_RoundTripTopResult ==
    /\ spc # "threw"
    /\ pc # "failed"
    /\ spc = "returned" =>
          /\ Len(results) >= 1
          /\ results[1].id = 0
          /\ results[1].originalEntry = lines[1]

\* The same, for the runs in which no embedding request failed.
C17_RoundTripNoFailure ==
    spc = "returned" /\ embedFailures = {} /\ ~IsZeroVector(queryEmbedding) =>
        /\ Len(results) >= 1
        /\ results[1].originalEntry = lines[1]

\* The same, for the runs in which no embedding request failed and the
\* record's title is a string or absent.
C17_RoundTripIndexed ==
    spc = "returned" /\ embedFailures = {} /\ ~IsZeroVector(queryEmbedding)
        /\ lines[1].title.t # "number" =>
        /\ Len(results) >= 1
        /\ results[1].originalEntry = lines[1]

\* C18 as stated: a list of n texts causes ceil(n / 8) provider requests.
C18_OneRequestPerSubBatch ==
    gePc = "returned" => Len(requests) = (Len(texts) + 7) \div 8

\* C18 as amended: every provider request carries one text, a list of n
\* texts causes n requests, one per position, and the requests are issued
\* sub-batch by sub-batch: none of a sub-batch of 8 positions is issued
\* before every request of the sub-batches before it has settled.
C18_OneRequestPerText ==
    /\ \A k \in 1 .. Len(requests) :
          /\ requests[k].slot \in 0 .. (Len(texts) - 1)
          /\ requests[k].text = texts[requests[k].slot + 1]
          /\ \A j \in 1 .. Len(requests) : requests[j].slot = requests[k].slot => j = k
          /\ \A earlier \in 0 .. (8 * (requests[k].slot \div 8) - 1) :
                embeddings[earlier + 1] # Undefined
    /\ gePc = "returned" => Len(requests) = Len(texts)

\* A call with 9 texts has returned after 9 requests in two sub-batches.
C18_Witness ==
    /\ gePc = "returned"
    /\ Len(texts) = 9
    /\ Len(requests) = 9
    /\ \E k \in 1 .. 9 : requests[k].slot = 8

\* How often a term occurs in a text
CountIn(term, text) == Cardinality({i \in 1 .. Len(text) : text[i] = term})

\* C19: the keyword index counts, for every indexed document, each term as
\* often as it occurs in the normalized content plus 3 times as often as it
\* occurs in the normalized title, and nothing else; the title and the
\* content stored in the record store are the record's own.
C19_TitleTermsCountThrice ==
    pc = "done" =>
        /\ Len(fsTfidf.documents) = Len(fsIndex.entries)
        /\ \A k \in 1 .. Len(fsIndex.entries) :
              LET stored  == fsIndex.entries[k]
                  record  == stored.originalEntry
                  content == PreprocessTokens(record.content.s)
                  title   == IF record.title.t = "string" THEN PreprocessTokens(record.title.s)
                             ELSE << >>
                  counts  == fsTfidf.documents[k]
              IN  /\ DOMAIN counts = {content[i] : i \in 1 .. Len(content)}
                                         \cup {title[i] : i \in 1 .. Len(title)}
                  /\ \A t \in DOMAIN counts :
                        counts[t] = CountIn(t, content) + 3 * CountIn(t, title)
                  /\ stored.content = record.content
                  /\ stored.title = IF record.title.t = "absent" THEN Str(<< >>)
                                    ELSE record.title

\* A document whose title term also occurs in its content: 1 + 3 * 1.
C19_Witness ==
    /\ pc = "done"
    /\ \E k \in 1 .. Len(fsTfidf.documents) :
          /\ "cat" \in DOMAIN fsTfidf.documents[k]
          /\ fsTfidf.documents[k]["cat"] = 4
          /\ fsIndex.entries[k].title = Str(<<"Cats">>)

\* C20: totalEntries is the number of lines read that decode as JSON, it
\* never exceeds a given sampleSize, reading stops early only once sampleSize
\* entries are counted, an undecodable line aborts nothing, and every field
\* of a counted record, among the requested ones, has its entry in
\* stats.fields.
C20_AnalyzeSample ==
    aPc = "returned" =>
        LET read    == SubSeq(aLines, 1, aLineNo)
            counted == SelectSeq(read, LAMBDA l : l.kind \in {"null", "object"})
        IN  /\ stats.totalEntries = Len(counted)
            /\ aOptions.sampleSize # 0 => stats.totalEntries <= aOptions.sampleSize
            /\ aLineNo < Len(aLines) => stats.totalEntries = aOptions.sampleSize
            /\ \A k \in 1 .. Len(counted) : \A i \in 1 .. Len(FieldsOf(counted[k])) :
                  LET field == FieldsOf(counted[k])[i]
                  IN  ~aOptions.fields.given \/ field \in aOptions.fields.names =>
                          field \in DOMAIN stats.fields

\* The same, for the files that hold no `null` line.
C20_AnalyzeSampleOfObjects ==
    (\A k \in 1 .. Len(aLines) : aLines[k].kind # "null") => C20_AnalyzeSample

\* ---------------------------------------------------------------- C21
\* C21: searchIndex returns at most limit results: the returned list is the
\* first limit elements of the documents whose relevance is at least the
\* threshold, taken in descending order of score (documents of equal score in
\* index order); with limit 0 it is empty.
C21_TopLimit ==
    spc = "returned" =>
        LET passing == {k \in DOMAIN scored : Geq(scored[k].relevance, sOptions.threshold)}
            Before(j, k) ==
                /\ j # k
                /\ \/ scored[j].score = scored[k].score /\ j < k
                   \/ scored[j].score # scored[k].score
                        /\ Gt(scored[j].score, scored[k].score)
            Rank(k) == Cardinality({j \in passing : Before(j, k)}) + 1
        IN  /\ Len(results) <= sOptions.limit
            /\ Len(results) = Min(sOptions.limit, Cardinality(passing))
            /\ \A r \in 1 .. Len(results) :
                  \E k \in passing : Rank(k) = r /\ results[r] = scored[k]
            /\ sOptions.limit = 0 => results = << >>

\* Two documents reached the threshold with different scores and limit 1
\* kept only the better one, which is not the first of the index.
C21_Witness ==
    /\ spc = "returned"
    /\ sOptions.limit = 1
    /\ Len(results) = 1
    /\ Len(scored) = 2
    /\ \A k \in 1 .. 2 : Geq(scored[k].relevance, sOptions.threshold)
    /\ results[1] = scored[2]
    /\ Gt(scored[2].score, scored[1].score)

\* Limit 0 returned nothing although a document reached the threshold.
C21_LimitZero ==
    /\ spc = "returned"
    /\ sOptions.limit = 0
    /\ results = << >>
    /\ \E k \in DOMAIN scored :
          /\ Geq(scored[k].relevance, sOptions.threshold)
          /\ Gt(scored[k].score, Num(0))

\* ---------------------------------------------------------------- C22
\* C22: the indexer's preprocessText and the searcher's preprocessText give
\* the same outcome for every argument, and for an absent or empty argument
\* both return the empty string.
C22_SameNormalization ==
    nDone = {"indexer", "searcher"} =>
        /\ nIndexer = nSearcher
        /\ ~Truthy(nText) =>
              /\ nIndexer = [threw |-> FALSE, value |-> << >>]
              /\ nSearcher = [threw |-> FALSE, value |-> << >>]

\* Both copies ran on "The Cats!": the article and the punctuation are gone
\* and the noun is stemmed.
C22_Witness ==
    /\ nDone = {"indexer", "searcher"}
    /\ nText = Str(<<"The", "Cats", "!">>)
    /\ ~nIndexer.threw
    /\ nIndexer.value = <<"cat">>
    /\ nSearcher.value = <<"cat">>

\* Both copies ran on the empty string and on an absent argument.
C22_EmptyArgument ==
    /\ nDone = {"indexer", "searcher"}
    /\ nText \in {AbsentField, Str(<< >>)}
    /\ nIndexer.value = << >>

\* ---------------------------------------------------------------- C23
\* The keyword document of a stored record, rebuilt from the record itself.
OwnKeywordDocument(stored) ==
    KeywordDocument([processedContent |-> preprocessText(stored.content).value,
                     processedTitle   |-> preprocessText(stored.title).value])

\* What the request for a text of the entry `id` left in its slot.
GeneratedFrom(text, id) ==
    IF id \in embedFailures
    THEN {HfFeatureExtraction(text), ZeroVector(zeroVectorDim)}
    ELSE {HfFeatureExtraction(text)}

\* The tf-idf score of searchIndex's query terms for the stored record at
\* position k, computed from the stored records alone.
OwnKeywordScore(stored, k) ==
    LET N == Len(stored)
        df(term) == Cardinality({j \in 1 .. N :
                                    CountIn(term, OwnKeywordDocument(stored[j])) > 0})
    IN  Sum([t \in 1 .. Len(allQueryTerms) |->
                IF allQueryTerms[t] = "" THEN Num(0)
                ELSE Frac(CountIn(allQueryTerms[t], OwnKeywordDocument(stored[k]))
                              * IdfTenths(N, df(allQueryTerms[t])), 10)])

\* C23: in the index a completed buildIndex has written, the document at
\* position i has id i, its embeddings are those of its own normalized
\* content and title, keyword document i is that of the same record and
\* metadata.entryCount is the number of documents and of keyword documents;
\* searchIndex gives every document the keyword score of its own keyword
\* document.
C23_PositionsAgree ==
    /\ pc = "done" =>
          /\ fsIndex.metadata.entryCount = Len(fsIndex.entries)
          /\ fsIndex.metadata.entryCount = Len(fsTfidf.documents)
          /\ \A k \in 1 .. Len(fsIndex.entries) :
                LET stored == fsIndex.entries[k]
                IN  /\ stored.id = k - 1
                    /\ stored.content = OrEmptyString(stored.originalEntry.content)
                    /\ stored.title = OrEmptyString(stored.originalEntry.title)
                    /\ stored.contentEmbedding \in
                           GeneratedFrom(preprocessText(stored.content).value, stored.id)
                    /\ fsIndex.metadata.titleBoost =>
                           stored.titleEmbedding \in
                              GeneratedFrom(preprocessText(stored.title).value, stored.id)
                    /\ fsTfidf.documents[k] = TermCounts(OwnKeywordDocument(stored))
    /\ spc \in {"score", "rank", "returned"} =>
          /\ Len(tfidfScores) = Len(index.entries)
          /\ \A k \in 1 .. Len(index.entries) :
                tfidfScores[k] = OwnKeywordScore(index.entries, k)
    /\ spc \in {"rank", "returned"} =>
          /\ Len(scored) = Len(index.entries)
          /\ \A k \in 1 .. Len(index.entries) :
                /\ scored[k].id = index.entries[k].id
                /\ scored[k].content = index.entries[k].content
                /\ scored[k].keywordRelevance =
                       Divide(OrElse(OwnKeywordScore(index.entries, k), Num(0)),
                              KeywordDivisor([j \in 1 .. Len(index.entries) |->
                                                 OwnKeywordScore(index.entries, j)]))

\* A search over an index of two documents, built from a source whose first
\* record has no keyword, gave the second document the only keyword score.
C23_Witness ==
    /\ pc = "done"
    /\ spc = "returned"
    /\ Len(index.entries) = 2
    /\ fsTfidf.documents[1] # fsTfidf.documents[2]
    /\ tfidfScores[1] = Num(0)
    /\ Gt(tfidfScores[2], Num(0))
    /\ scored[2].keywordRelevance = Num(1)
    /\ scored[2].id = 1

\* An index whose only document comes from the second line of its source.
C23_SkippedLineBefore ==
    /\ pc = "done"
    /\ Len(lines) = 2
    /\ lines[1] = GarbageLine
    /\ Len(fsIndex.entries) = 1
    /\ fsIndex.entries[1].id = 0
    /\ fsIndex.entries[1].originalEntry = lines[2]

\* ---------------------------------------------------------------- C24
\* The buildIndex call followed step by step writes index.json only once all
\* its embeddings are there and without touching tfidf.json, and writes
\* tfidf.json only after that, in a step of its own.
WritesInOrder ==
    /\ storeWrittenBy' = ThisBuild /\ storeWrittenBy # ThisBuild =>
          /\ pc = "batch"
          /\ gePc = "idle"
          /\ Len(contentEmbeddings) = Len(entries)
          /\ options.titleBoost => Len(titleEmbeddings) = Len(entries)
          /\ keywordsWrittenBy # ThisBuild
          /\ UNCHANGED <<fsTfidf, keywordsWrittenBy>>
    /\ keywordsWrittenBy' = ThisBuild /\ keywordsWrittenBy # ThisBuild =>
          /\ pc = "writeTfidf"
          /\ UNCHANGED <<fsIndex, storeWrittenBy>>
    /\ pc' = "writeTfidf" /\ pc # "writeTfidf" =>
          /\ storeWrittenBy' = ThisBuild
          /\ fsIndex'.present
    /\ pc' = "done" /\ pc # "done" =>
          /\ keywordsWrittenBy' = ThisBuild
          /\ fsTfidf'.present
    /\ ThisBuildRunning' /\ pc' # "writeTfidf" =>
          storeWrittenBy' # ThisBuild /\ keywordsWrittenBy' # ThisBuild
    /\ fsIndex' # fsIndex => storeWrittenBy' # storeWrittenBy
    /\ fsTfidf' # fsTfidf => keywordsWrittenBy' # keywordsWrittenBy

\* searchIndex reads index.json and tfidf.json.
LoadsIndex == spc = "start" /\ spc' = "embedding"

\* C24 as stated: buildIndex writes the two artifacts in order once the
\* embeddings are generated, and a searchIndex call that overlaps no build,
\* no build having been interrupted, loads a record store and keyword
\* statistics written by the same build.
C24_SameBuildLoaded ==
    [][ /\ WritesInOrder
        /\ LoadsIndex /\ ~ThisBuildRunning /\ ~OtherBuildRunning /\ ~interrupted =>
              storeWrittenBy = keywordsWrittenBy ]_vars

\* C24 as amended: the same, for the locations on which no two builds have
\* overlapped either.
C24_SameBuildLoadedIfBuildsApart ==
    [][ /\ WritesInOrder
        /\ LoadsIndex /\ ~ThisBuildRunning /\ ~OtherBuildRunning /\ ~interrupted
              /\ ~overlapped =>
              /\ storeWrittenBy = keywordsWrittenBy
              /\ storeWrittenBy # NoBuild ]_vars

\* Two builds ran one after the other on the location, and the search then
\* loaded what the second one wrote.
C24_Witness ==
    /\ pc = "done"
    /\ oPc = "done"
    /\ ~overlapped
    /\ ~interrupted
    /\ lines # oLines
    /\ spc = "embedding"
    /\ index = fsIndex
    /\ tfidf = fsTfidf
    /\ storeWrittenBy = ThisBuild
    /\ keywordsWrittenBy = ThisBuild

\* Two overlapping builds have both returned and left the record store of
\* one with the keyword statistics of the other, and a search loaded them.
C24_MixedIndexLoaded ==
    /\ pc = "done"
    /\ oPc = "done"
    /\ overlapped
    /\ ~interrupted
    /\ spc = "embedding"
    /\ index = fsIndex
    /\ tfidf = fsTfidf
    /\ storeWrittenBy = OtherBuild(1)
    /\ keywordsWrittenBy = ThisBuild
    /\ lines # oLines


====
